---------------------------- MODULE Spec2Model ----------------------------
(***************************************************************************)
(* A model of the client-side logic of the Alkosto product-advisor chat    *)
(* front end:                                                              *)
(*   - ChatService (src/src/lib/chatService.ts): the retrying request      *)
(*     client, its error classification and its shared retry counter;      *)
(*   - AlkostoAPI (src/src/lib/api.ts): the session id and the bounded     *)
(*     chat history kept in the browser's localStorage, the connection     *)
(*     status, and the request of the chat page;                           *)
(*   - MessageProtocolService (src/src/lib/messageProtocol.ts): the intent *)
(*     and context heuristic;                                              *)
(*   - the chat page (src/src/app/page.tsx) and the chat store             *)
(*     (useChatStore of src/src/lib/messageProtocol.ts): the message list, *)
(*     the typing flag and the displayed products under overlapping sends. *)
(*                                                                         *)
(* Specifications:                                                         *)
(*   Spec            one ChatService instance, calls issued one at a time, *)
(*                   every transport outcome;                              *)
(*   SpecOverlap     one ChatService instance, overlapping calls;          *)
(*   SpecOverlapFair SpecOverlap with the fairness of the event loop;      *)
(*   SpecClassify    ChatService.analyzeError applied to thrown values;    *)
(*   SpecTerminal    one ChatService instance, calls that fail for good;   *)
(*   SpecStore       AlkostoAPI's session and history operations;          *)
(*   SpecStoreDown   the same operations with storage that always throws;  *)
(*   SpecIntent      MessageProtocolService.createStructuredMessage on a   *)
(*                   fresh service;                                        *)
(*   SpecChain       chains of createStructuredMessage calls;              *)
(*   SpecFormat      formatForLLMAPI on messages and contexts of a caller; *)
(*   SpecChainFormat SpecChain with each message formatted;                *)
(*   SpecHealth      AlkostoAPI.getConnectionStatus;                       *)
(*   SpecUI          the chat page or the chat store, with overlapping     *)
(*                   sends and new chats;                                  *)
(*   SpecUIImport    SpecUI with importChatHistory;                        *)
(*   SpecUIFair      SpecUI in which every backend call settles.           *)
(***************************************************************************)
EXTENDS Integers, Sequences, FiniteSets, TLC

VARIABLES
    retries,      \* ChatService.config.retries
    retryCount,   \* ChatService.retryCount
    calls,        \* the sendMessage calls of the instance, by slot
    thrown,       \* SpecClassify: the value handed to analyzeError
    ctx,          \* SpecClassify: what analyzeError returned for it
    env,          \* the browser: window, the two localStorage items, clock, id source
    ret,          \* AlkostoAPI: the last storage operation and what it returned
    lastSaved,    \* AlkostoAPI: the list of the last save, while storage has worked since
    structured,   \* MessageProtocolService: the message createStructuredMessage returned last
    previous,     \* MessageProtocolService: the previousContext of that call
    currentContext, \* MessageProtocolService.currentContext
    formatted,    \* MessageProtocolService: what formatForLLMAPI returned last
    health,       \* AlkostoAPI.getConnectionStatus: the call and what it returned
    app,          \* the user interface that runs: the page or the chat store
    ui,           \* its state: the page's React state, or the store's state
    sends,        \* the sends of the user interface, by the order of their start
    settled       \* the send whose reply the last step rendered (0: none)

chatVars  == <<retries, retryCount, calls>>
classVars == <<thrown, ctx>>
storeVars == <<env, ret, lastSaved>>
heurVars  == <<structured, previous, currentContext, formatted>>
healthVars == <<health>>
uiVars    == <<app, ui, sends, settled>>
vars      == <<chatVars, classVars, storeVars, heurVars, healthVars, uiVars>>

\* what the actions of each part leave alone
nonChatVars   == <<classVars, storeVars, heurVars, healthVars, uiVars>>
nonClassVars  == <<chatVars, storeVars, heurVars, healthVars, uiVars>>
nonStoreVars  == <<chatVars, classVars, heurVars, healthVars, uiVars>>
nonHeurVars   == <<chatVars, classVars, storeVars, healthVars, uiVars>>
nonHealthVars == <<chatVars, classVars, storeVars, heurVars, uiVars>>
nonUiVars     == <<chatVars, classVars, heurVars, healthVars, ret, lastSaved>>

(***************************************************************************)
(* Bounds of the model.                                                    *)
(***************************************************************************)
\* the largest configured retry maximum (config.retries) explored
MaxRetries == 2

\* the transport scripts explored fail at most MaxRetries + 1 times before
\* their final outcome, so that a call can exhaust every retry
MaxFails == MaxRetries + 1

\* the attempt count of a call is kept exactly up to AttemptCap and
\* saturates there (a call running alone makes at most MaxRetries + 1)
AttemptCap == MaxRetries + 3

Min(a, b) == IF a <= b THEN a ELSE b

(***************************************************************************)
(* Thrown values.  An Error's message is kept as what the code reads of    *)
(* it: which of the terms it searches with String.includes occur in it,    *)
(* and what parseInt(message.split('HTTP_')[1]) yields (<<>> is NaN, <<n>> *)
(* the number n).  isError is `error instanceof Error`.                    *)
(***************************************************************************)
Terms == {"fetch", "NetworkError", "HTTP_", "aborted", "timeout", "INVALID_RESPONSE"}

NaN == <<>>

\* a field the code leaves undefined
Undefined == <<"undefined">>

\* no error context (the `error` field of a success payload is absent)
NoError == [type |-> "none"]

Num(n) == <<n>>

IsNum(c) == c # NaN

\* message.includes(term)
Includes(e, term) == term \in e.has

\* new Error(...) with the given terms in its message
MkError(has, code) == [isError |-> TRUE, has |-> has, code |-> code]

(***************************************************************************)
(* ChatService.analyzeError                                                *)
(***************************************************************************)
ErrCtx(type, statusCode, retryable, userMessage) ==
    [type |-> type, statusCode |-> statusCode, retryable |-> retryable,
     userMessage |-> userMessage]

\* the `switch (true)` over the parsed status code, case by case
analyzeHttp(statusCode) ==
    CASE IsNum(statusCode) /\ statusCode[1] = 429 ->
            ErrCtx("rate_limit", statusCode, TRUE, <<"Demasiadas consultas">>)
      [] IsNum(statusCode) /\ statusCode[1] >= 500 ->
            ErrCtx("server", statusCode, TRUE, <<"Problema temporal en nuestros servidores">>)
      [] IsNum(statusCode) /\ statusCode[1] = 400 ->
            ErrCtx("validation", statusCode, FALSE, <<"Mensaje no valido">>)
      [] IsNum(statusCode) /\ statusCode[1] = 404 ->
            ErrCtx("server", statusCode, FALSE, <<"Servicio no disponible">>)
      [] OTHER ->
            ErrCtx("server", statusCode,
                   IsNum(statusCode) /\ statusCode[1] >= 500,
                   <<"Error del servidor", statusCode>>)

\* a variant that looks for an HTTP status before the network terms
analyzeErrorHttpFirst(error) ==
    IF error.isError /\ Includes(error, "HTTP_")
    THEN analyzeHttp(error.code)
    ELSE IF error.isError /\ (Includes(error, "fetch") \/ Includes(error, "NetworkError"))
    THEN ErrCtx("network", Undefined, TRUE, <<"Sin conexion a internet">>)
    ELSE IF error.isError /\ (Includes(error, "aborted") \/ Includes(error, "timeout"))
    THEN ErrCtx("network", Undefined, TRUE, <<"La consulta tardo demasiado">>)
    ELSE IF error.isError /\ Includes(error, "INVALID_RESPONSE")
    THEN ErrCtx("validation", Undefined, FALSE, <<"Respuesta del servidor invalida">>)
    ELSE ErrCtx("unknown", Undefined, FALSE, <<"Error inesperado">>)

analyzeError(error) ==
    IF error.isError /\ (Includes(error, "fetch") \/ Includes(error, "NetworkError"))
    THEN ErrCtx("network", Undefined, TRUE, <<"Sin conexion a internet">>)
    ELSE IF error.isError /\ Includes(error, "HTTP_")
    THEN analyzeHttp(error.code)
    ELSE IF error.isError /\ (Includes(error, "aborted") \/ Includes(error, "timeout"))
    THEN ErrCtx("network", Undefined, TRUE, <<"La consulta tardo demasiado">>)
    ELSE IF error.isError /\ Includes(error, "INVALID_RESPONSE")
    THEN ErrCtx("validation", Undefined, FALSE, <<"Respuesta del servidor invalida">>)
    ELSE ErrCtx("unknown", Undefined, FALSE, <<"Error inesperado">>)

\* suggestions that also look at the status code
getErrorSuggestionsByStatus(errorContext) ==
    CASE errorContext.type = "network" ->
            <<"Verificar conexion a internet", "Intentar de nuevo", "Contactar soporte si persiste">>
      [] errorContext.type = "rate_limit" ->
            <<"Esperar 30 segundos", "Reformular la pregunta", "Intentar una consulta mas especifica">>
      [] errorContext.type = "server" /\ errorContext.statusCode = Num(404) ->
            <<"Reportar el problema">>
      [] errorContext.type = "server" ->
            <<"Reintentar en unos segundos", "Simplificar la consulta", "Reportar el problema">>
      [] errorContext.type = "validation" ->
            <<"Reformular la pregunta", "Ser mas especifico", "Intentar con otras palabras">>
      [] OTHER ->
            <<"Intentar de nuevo", "Reformular la consulta", "Contactar soporte">>

\* ChatService.getErrorSuggestions
getErrorSuggestions(errorContext) ==
    CASE errorContext.type = "network" ->
            <<"Verificar conexion a internet", "Intentar de nuevo", "Contactar soporte si persiste">>
      [] errorContext.type = "rate_limit" ->
            <<"Esperar 30 segundos", "Reformular la pregunta", "Intentar una consulta mas especifica">>
      [] errorContext.type = "server" ->
            <<"Reintentar en unos segundos", "Simplificar la consulta", "Reportar el problema">>
      [] errorContext.type = "validation" ->
            <<"Reformular la pregunta", "Ser mas especifico", "Intentar con otras palabras">>
      [] OTHER ->
            <<"Intentar de nuevo", "Reformular la consulta", "Contactar soporte">>

(***************************************************************************)
(* The transport: what one `fetch` of makeRequest can end in.              *)
(*   ok        a 2xx answer whose JSON body carries a string `message`     *)
(*             (data: the body, which may carry fields of its own);        *)
(*   nomessage a 2xx answer whose JSON body lacks a string `message`;      *)
(*   badjson   a 2xx answer whose body is no JSON (response.json() throws  *)
(*             a SyntaxError);                                             *)
(*   http      a non-2xx answer (status, and the terms its statusText      *)
(*             holds: the server chooses the reason phrase);               *)
(*   network   fetch rejects (the terms of the engine's TypeError message: *)
(*             "Failed to fetch", "Load failed");                          *)
(*   abort     the timeout aborted the request (an AbortError, whose       *)
(*             message says "aborted").                                    *)
(***************************************************************************)
Data(flag) ==
    [message |-> "reply", confidence |-> "HIGH", products |-> <<"p1">>,
     agentType |-> "agent", success |-> flag, error |-> NoError]

Ok(flag)        == [kind |-> "ok", data |-> Data(flag)]
NoMessage       == [kind |-> "nomessage"]
BadJson         == [kind |-> "badjson"]
Http(st, text)  == [kind |-> "http", status |-> st, text |-> text]
Network(text)   == [kind |-> "network", text |-> text]
Abort           == [kind |-> "abort"]

HttpStatuses == {400, 404, 418, 429, 500}

Failures ==
    {NoMessage, BadJson, Abort, Network({"fetch"}), Network({}), Http(400, {"fetch"})}
    \cup {Http(st, {}) : st \in HttpStatuses}

Outcomes == {Ok(TRUE), Ok(FALSE)} \cup Failures

\* ChatService.makeRequest on a transport outcome: the body it returns, or
\* the Error it throws
makeRequest(o) ==
    CASE o.kind = "ok"        -> [threw |-> FALSE, value |-> o.data]
      [] o.kind = "http"      -> [threw |-> TRUE,
                                  value |-> MkError({"HTTP_"} \cup o.text, Num(o.status))]
      [] o.kind = "nomessage" -> [threw |-> TRUE, value |-> MkError({"INVALID_RESPONSE"}, NaN)]
      [] o.kind = "badjson"   -> [threw |-> TRUE, value |-> MkError({}, NaN)]
      [] o.kind = "network"   -> [threw |-> TRUE, value |-> MkError(o.text, NaN)]
      [] o.kind = "abort"     -> [threw |-> TRUE, value |-> MkError({"aborted"}, NaN)]

(***************************************************************************)
(* A transport script: what the transport answers to the successive        *)
(* attempts of one call: `fail` to the first n attempts, `final` to every  *)
(* later one.                                                              *)
(***************************************************************************)
Script(fail, n, final) == [fail |-> fail, n |-> n, final |-> final]

OutcomeAt(s, i) == IF i <= s.n THEN s.fail ELSE s.final

ScriptsOver(fails, finals) ==
    {Script(f, n, t) : f \in fails, n \in 1..MaxFails, t \in finals}
    \cup {Script(t, 0, t) : t \in finals}

Scripts == ScriptsOver(Failures, Outcomes)

OverlapScripts ==
    ScriptsOver({Network({"fetch"})}, {Ok(TRUE), Http(400, {})})
    \cup {Script(Network({"fetch"}), 0, Network({"fetch"}))}

(***************************************************************************)
(* ChatService.sendMessage                                                 *)
(***************************************************************************)
NoResponse == [success |-> "pending"]

\* a variant that returns the body as the server sent it
SuccessResponseAsSent(response) == response

\* the `return {...response, responseTime, success: true}` of the try block
SuccessResponse(response) == [response EXCEPT !.success = TRUE]

\* the structured error response of the catch block
ErrorResponse(errorContext) ==
    [message |-> errorContext.userMessage, confidence |-> "LOW", products |-> <<>>,
     suggestions |-> getErrorSuggestions(errorContext), success |-> FALSE,
     agentType |-> "ErrorHandler", error |-> errorContext]

\* a variant whose retry budget is one short
ShouldRetryOneShort(errorContext, count, max) == errorContext.retryable /\ count + 1 < max

\* the retry condition of the catch block
ShouldRetry(errorContext, count, max) == errorContext.retryable /\ count < max

\* a variant that leaves the counter as it is
KeepOnSuccess(count) == count

\* the counter after a successful attempt
ResetOnSuccess(count) == 0

Calls == {1, 2}

\* a backoff that starts at one second
BackoffDelayFromOne(count) == (2 ^ (count - 1)) * 1000

\* Math.pow(2, this.retryCount) * 1000, in milliseconds
BackoffDelay(count) == (2 ^ count) * 1000

\* the total delay of a call is kept exactly up to WaitedCap, which is more
\* than a call that starts with counter 0 can wait
WaitedCap == BackoffDelay(MaxRetries + 1)

\* lastDelay: the backoff delay the call asked for last; waited: the sum of
\* its backoff delays
IdleCall ==
    [pc |-> "idle", script |-> Script(Ok(TRUE), 0, Ok(TRUE)), attempts |-> 0,
     startCount |-> 0, endCount |-> 0, alone |-> TRUE, response |-> NoResponse,
     lastDelay |-> 0, waited |-> 0]

InFlight(c) == calls[c].pc \in {"attempt", "backoff"}

\* the outcome of the attempt call c is waiting for
Current(c) == OutcomeAt(calls[c].script, calls[c].attempts)

\* sendMessage is called: makeRequest issues the first fetch
StartCall(c, s, overlap) ==
    /\ calls[c].pc = "idle"
    /\ overlap \/ \A d \in Calls : calls[d].pc = "idle"
    /\ calls' = [d \in Calls |->
                   IF d = c
                   THEN [IdleCall EXCEPT !.pc = "attempt", !.script = s, !.attempts = 1,
                                         !.startCount = retryCount,
                                         !.alone = \A e \in Calls : ~InFlight(e)]
                   ELSE IF InFlight(d) THEN [calls[d] EXCEPT !.alone = FALSE]
                   ELSE calls[d]]
    /\ UNCHANGED <<retries, retryCount, nonChatVars>>

\* the awaited makeRequest returns: the try block completes
AttemptSucceeds(c) ==
    /\ calls[c].pc = "attempt"
    /\ ~makeRequest(Current(c)).threw
    /\ retryCount' = ResetOnSuccess(retryCount)
    /\ calls' = [calls EXCEPT ![c].pc = "done",
                               ![c].response = SuccessResponse(makeRequest(Current(c)).value),
                               ![c].endCount = retryCount']
    /\ UNCHANGED <<retries, nonChatVars>>

\* a retry decided on the counter value the call read when it started
AttemptRetriesStaleCount(c) ==
    /\ calls[c].pc = "attempt"
    /\ makeRequest(Current(c)).threw
    /\ ShouldRetry(analyzeError(makeRequest(Current(c)).value), calls[c].startCount, retries)
    /\ retryCount' = retryCount + 1
    /\ calls' = [calls EXCEPT
                    ![c].pc = "backoff",
                    ![c].lastDelay = BackoffDelay(retryCount'),
                    ![c].waited = Min(@ + BackoffDelay(retryCount'), WaitedCap)]
    /\ UNCHANGED <<retries, nonChatVars>>

\* the awaited makeRequest throws a retryable error below the maximum:
\* the counter is incremented and the backoff delay awaited
AttemptRetries(c) ==
    /\ calls[c].pc = "attempt"
    /\ makeRequest(Current(c)).threw
    /\ ShouldRetry(analyzeError(makeRequest(Current(c)).value), retryCount, retries)
    /\ retryCount' = retryCount + 1
    /\ calls' = [calls EXCEPT
                    ![c].pc = "backoff",
                    ![c].lastDelay = BackoffDelay(retryCount'),
                    ![c].waited = Min(@ + BackoffDelay(retryCount'), WaitedCap)]
    /\ UNCHANGED <<retries, nonChatVars>>

\* the awaited makeRequest throws and no retry is made: the structured
\* error response is returned
AttemptFails(c) ==
    /\ calls[c].pc = "attempt"
    /\ makeRequest(Current(c)).threw
    /\ ~ShouldRetry(analyzeError(makeRequest(Current(c)).value), retryCount, retries)
    /\ calls' = [calls EXCEPT ![c].pc = "done",
                               ![c].response = ErrorResponse(analyzeError(makeRequest(Current(c)).value)),
                               ![c].endCount = retryCount]
    /\ UNCHANGED <<retries, retryCount, nonChatVars>>

\* the delay elapses: the recursive sendMessage issues the next fetch
BackoffDone(c) ==
    /\ calls[c].pc = "backoff"
    /\ calls' = [calls EXCEPT ![c].pc = "attempt",
                               ![c].attempts = Min(calls[c].attempts + 1, AttemptCap)]
    /\ UNCHANGED <<retries, retryCount, nonChatVars>>

\* the caller has consumed the settled promise; the slot is free for the
\* next call on the same instance
Retire(c) ==
    /\ calls[c].pc = "done"
    /\ calls' = [calls EXCEPT ![c] = IdleCall]
    /\ UNCHANGED <<retries, retryCount, nonChatVars>>

Step(c) ==
    \/ AttemptSucceeds(c)
    \/ AttemptRetries(c)
    \/ AttemptFails(c)
    \/ BackoffDone(c)
    \/ Retire(c)

(***************************************************************************)
(* SpecClassify: analyzeError applied to one thrown value.                 *)
(***************************************************************************)
Codes == {0, 302, 400, 401, 404, 429, 499, 500, 503}

\* Errors with every combination of the searched terms (and, when the
\* message holds 'HTTP_', every parse of what follows it), and values that
\* are no Error (a thrown string or plain object)
ThrownValues ==
    {MkError(has, NaN) : has \in SUBSET Terms}
    \cup {MkError(has \cup {"HTTP_"}, Num(n)) : has \in SUBSET Terms, n \in Codes}
    \cup {[isError |-> FALSE, has |-> has, code |-> NaN] : has \in SUBSET Terms}

\* the catch block of sendMessage hands the thrown value to analyzeError
Classify ==
    /\ ctx = NoError
    /\ ctx' = analyzeError(thrown)
    /\ UNCHANGED <<thrown, nonClassVars>>

(***************************************************************************)
(* AlkostoAPI: the session id and the chat history in localStorage.        *)
(*                                                                         *)
(* env.session and env.history are the items under SESSION_KEY and         *)
(* CHAT_HISTORY_KEY.  env.clock is                                        *)
(* Date.now(); env.fresh counts the ids generated so far: the random       *)
(* suffix of a generated session id is taken to make it differ from every  *)
(* id generated before, while a 'temp_' id is the clock value alone.       *)
(* Every access to localStorage may throw: the record f of an operation    *)
(* says which of its accesses do.                                          *)
(***************************************************************************)
\* messages.slice(-50)
HistoryCap == 50

\* the lists handed to saveChatHistory hold up to HistoryCap + MaxOver messages
MaxOver == 1

\* the ids generated in one behaviour
MaxIds == 2

\* the milliseconds that pass in one behaviour
MaxClock == 1

\* getItem(SESSION_KEY) returns null
NoSession == <<"null">>

\* getItem(CHAT_HISTORY_KEY) returns null
NoHistory == [sessionId |-> <<"null">>]

\* getItem(CHAT_HISTORY_KEY) returns a string that JSON.parse rejects (the
\* record has no session id and no messages to read)
CorruptHistory ==
    [sessionId |-> <<"corrupt">>, messages |-> <<>>, lastUpdated |-> <<"corrupt">>]

SessionId(r) == <<"session", r>>

TempId(t) == <<"temp", t>>

ServerSession == <<"server-session">>

Date(ms) == <<"Date", ms>>

\* Date.prototype.toISOString / toJSON
ToISO(d) == <<"ISO", d[2]>>

\* new Date(isoString)
NewDate(iso) == <<"Date", iso[2]>>

\* the i-th message the UI created
Message(i) == [id |-> i, timestamp |-> Date(i)]

MessageList(n) == [i \in 1..n |-> Message(i)]

Lengths == {0, 1, HistoryCap, HistoryCap + MaxOver}

\* a variant of slice that keeps the first k elements
SliceFirst(messages, k) ==
    [i \in 1..Min(Len(messages), k) |-> messages[i]]

\* messages.slice(-k)
SliceLast(messages, k) ==
    [i \in 1..Min(Len(messages), k) |-> messages[Len(messages) - Min(Len(messages), k) + i]]

\* JSON.stringify of a message list: a Date is written as its ISO string
Stringify(messages) ==
    [i \in 1..Len(messages) |-> [messages[i] EXCEPT !.timestamp = ToISO(@)]]

\* history.messages.map(msg => ({...msg, timestamp: new Date(msg.timestamp)}))
Revive(messages) ==
    [i \in 1..Len(messages) |-> [messages[i] EXCEPT !.timestamp = NewDate(@)]]

\* which accesses of an operation throw: getItem and setItem of the session
\* id, getItem or setItem of the history record, removeItem of the record
Throws(get, set, hist, remove) == [get |-> get, set |-> set, hist |-> hist, remove |-> remove]

\* a getSessionId that does not look for a persisted id
getSessionIdAlwaysNew(e, f) ==
    IF ~e.hasWindow
    THEN [env |-> e, value |-> ServerSession, threw |-> FALSE]
    ELSE IF f.get \/ f.set
    THEN [env |-> [e EXCEPT !.fresh = @ + 1], value |-> TempId(e.clock), threw |-> TRUE]
    ELSE [env |-> [e EXCEPT !.fresh = @ + 1, !.session = SessionId(e.fresh + 1)],
          value |-> SessionId(e.fresh + 1), threw |-> FALSE]

\* AlkostoAPI.getSessionId: the environment after it, the id it returns,
\* and whether a storage access threw
getSessionId(e, f) ==
    IF ~e.hasWindow
    THEN [env |-> e, value |-> ServerSession, threw |-> FALSE]
    ELSE IF f.get
    THEN [env |-> e, value |-> TempId(e.clock), threw |-> TRUE]
    ELSE IF e.session # NoSession
    THEN [env |-> e, value |-> e.session, threw |-> FALSE]
    ELSE IF f.set
    THEN [env |-> [e EXCEPT !.fresh = @ + 1], value |-> TempId(e.clock), threw |-> TRUE]
    ELSE [env |-> [e EXCEPT !.fresh = @ + 1, !.session = SessionId(e.fresh + 1)],
          value |-> SessionId(e.fresh + 1), threw |-> FALSE]

\* a saveChatHistory whose write of the record never fails
saveChatHistoryAlwaysStores(e, messages, f) ==
    IF ~e.hasWindow
    THEN [env |-> e, value |-> Undefined, threw |-> FALSE, sid |-> Undefined]
    ELSE LET g == getSessionId(e, f)
             history == [sessionId |-> g.value,
                         messages |-> Stringify(SliceLast(messages, HistoryCap)),
                         lastUpdated |-> ToISO(Date(e.clock))]
         IN  [env |-> [g.env EXCEPT !.history = history], value |-> Undefined,
              threw |-> g.threw, sid |-> g.value]

\* AlkostoAPI.saveChatHistory
saveChatHistory(e, messages, f) ==
    IF ~e.hasWindow
    THEN [env |-> e, value |-> Undefined, threw |-> FALSE, sid |-> Undefined]
    ELSE LET g == getSessionId(e, f)
             history == [sessionId |-> g.value,
                         messages |-> Stringify(SliceLast(messages, HistoryCap)),
                         lastUpdated |-> ToISO(Date(e.clock))]
         IN  IF f.hist
             THEN [env |-> g.env, value |-> Undefined, threw |-> TRUE, sid |-> g.value]
             ELSE [env |-> [g.env EXCEPT !.history = history], value |-> Undefined,
                   threw |-> g.threw, sid |-> g.value]

\* a variant of loadChatHistory that does not compare the session ids
loadChatHistoryAnySession(e, f) ==
    IF ~e.hasWindow
    THEN [env |-> e, value |-> <<>>, threw |-> FALSE, sid |-> Undefined]
    ELSE IF f.hist
    THEN [env |-> e, value |-> <<>>, threw |-> TRUE, sid |-> Undefined]
    ELSE IF e.history = NoHistory
    THEN [env |-> e, value |-> <<>>, threw |-> FALSE, sid |-> Undefined]
    ELSE LET g == getSessionId(e, f)
         IN  [env |-> g.env, value |-> Revive(e.history.messages),
              threw |-> g.threw, sid |-> g.value]

\* AlkostoAPI.loadChatHistory
loadChatHistory(e, f) ==
    IF ~e.hasWindow
    THEN [env |-> e, value |-> <<>>, threw |-> FALSE, sid |-> Undefined]
    ELSE IF f.hist
    THEN [env |-> e, value |-> <<>>, threw |-> TRUE, sid |-> Undefined]
    ELSE IF e.history = NoHistory
    THEN [env |-> e, value |-> <<>>, threw |-> FALSE, sid |-> Undefined]
    ELSE IF e.history = CorruptHistory
    THEN [env |-> e, value |-> <<>>, threw |-> TRUE, sid |-> Undefined]
    ELSE LET g == getSessionId(e, f)
         IN  IF e.history.sessionId = g.value
             THEN [env |-> g.env, value |-> Revive(e.history.messages),
                   threw |-> g.threw, sid |-> g.value]
             ELSE [env |-> g.env, value |-> <<>>, threw |-> g.threw, sid |-> g.value]

\* a variant of resetSession that only deletes the history record
resetSessionKeepId(e, f) ==
    IF ~e.hasWindow
    THEN [env |-> e, value |-> Undefined, threw |-> FALSE, sid |-> Undefined]
    ELSE IF f.remove
    THEN [env |-> [e EXCEPT !.fresh = @ + 1], value |-> Undefined, threw |-> TRUE,
          sid |-> Undefined]
    ELSE [env |-> [e EXCEPT !.fresh = @ + 1, !.history = NoHistory],
          value |-> Undefined, threw |-> FALSE, sid |-> SessionId(e.fresh + 1)]

\* AlkostoAPI.resetSession (sid: the id it wrote, if the write went through)
resetSession(e, f) ==
    IF ~e.hasWindow
    THEN [env |-> e, value |-> Undefined, threw |-> FALSE, sid |-> Undefined]
    ELSE IF f.set
    THEN [env |-> [e EXCEPT !.fresh = @ + 1], value |-> Undefined, threw |-> TRUE,
          sid |-> Undefined]
    ELSE IF f.remove
    THEN [env |-> [e EXCEPT !.fresh = @ + 1, !.session = SessionId(e.fresh + 1)],
          value |-> Undefined, threw |-> TRUE, sid |-> SessionId(e.fresh + 1)]
    ELSE [env |-> [e EXCEPT !.fresh = @ + 1, !.session = SessionId(e.fresh + 1),
                            !.history = NoHistory],
          value |-> Undefined, threw |-> FALSE, sid |-> SessionId(e.fresh + 1)]

\* no list is remembered
NoList == [valid |-> FALSE, list |-> <<>>]

Saved(messages) == [valid |-> TRUE, list |-> messages]

\* the record kept of an operation: its name, what it returned, the session
\* id it obtained or wrote, whether storage (or JSON.parse) threw in it;
\* and of the operation before it, its name and whether it obtained or
\* wrote an id
Ret(op, r) ==
    [op |-> op, value |-> r.value, sid |-> r.sid, threw |-> r.threw,
     prevOp |-> ret.op, prevHadSid |-> ret.sid # Undefined]

NoRet ==
    [op |-> "none", value |-> Undefined, sid |-> Undefined, threw |-> FALSE,
     prevOp |-> "none", prevHadSid |-> FALSE]

\* time passes before the operation runs
Tick(dt) == [env EXCEPT !.clock = @ + dt]

\* the model follows a behaviour while the clock and the id source are
\* within their bounds
StoreStep(dt, r) ==
    /\ env.clock + dt <= MaxClock
    /\ r.env.fresh <= MaxIds
    /\ env' = r.env
    /\ UNCHANGED nonStoreVars

SaveChatHistory(n, f, dt) ==
    LET r == saveChatHistory(Tick(dt), MessageList(n), f)
    IN  /\ StoreStep(dt, r)
        /\ ret' = Ret("save", r)
        /\ lastSaved' = IF env.hasWindow /\ ~r.threw THEN Saved(MessageList(n)) ELSE NoList

LoadChatHistory(f, dt) ==
    LET r == loadChatHistory(Tick(dt), f)
    IN  /\ StoreStep(dt, r)
        /\ ret' = Ret("load", r)
        /\ lastSaved' = IF r.threw THEN NoList ELSE lastSaved

GetCurrentSessionId(f, dt) ==
    LET r == getSessionId(Tick(dt), f)
    IN  /\ StoreStep(dt, r)
        /\ ret' = Ret("getCurrentSessionId",
                       [value |-> r.value, sid |-> r.value, threw |-> r.threw])
        /\ lastSaved' = IF r.threw THEN NoList ELSE lastSaved

\* a reset that removes the history record before it writes the new id
ResetSessionRemovesFirst(f, dt) ==
    LET e == Tick(dt)
        r == IF ~e.hasWindow
             THEN [env |-> e, value |-> Undefined, threw |-> FALSE, sid |-> Undefined]
             ELSE IF f.remove
             THEN [env |-> [e EXCEPT !.fresh = @ + 1], value |-> Undefined,
                   threw |-> TRUE, sid |-> Undefined]
             ELSE IF f.set
             THEN [env |-> [e EXCEPT !.fresh = @ + 1, !.history = NoHistory],
                   value |-> Undefined, threw |-> TRUE, sid |-> Undefined]
             ELSE [env |-> [e EXCEPT !.fresh = @ + 1, !.session = SessionId(e.fresh + 1),
                                     !.history = NoHistory],
                   value |-> Undefined, threw |-> FALSE, sid |-> SessionId(e.fresh + 1)]
    IN  /\ StoreStep(dt, r)
        /\ ret' = Ret("reset", r)
        /\ lastSaved' = NoList

ResetSession(f, dt) ==
    LET r == resetSession(Tick(dt), f)
    IN  /\ StoreStep(dt, r)
        /\ ret' = Ret("reset", r)
        /\ lastSaved' = NoList

\* AlkostoAPI.sendMessage reads the session id: before the request for its
\* body, and again in the catch block of a failed request for the error
\* response; each read is a step of its own (any number of sends may be in
\* flight)
SendMessageGetSessionId(f, dt) ==
    LET r == getSessionId(Tick(dt), f)
    IN  /\ StoreStep(dt, r)
        /\ ret' = Ret("send", [value |-> r.value, sid |-> r.value, threw |-> r.threw])
        /\ lastSaved' = IF r.threw THEN NoList ELSE lastSaved

(***************************************************************************)
(* MessageProtocolService: the intent and context heuristic.  A string is  *)
(* the sequence of its characters.                                         *)
(***************************************************************************)
LowerCase ==
    <<"a", "b", "c", "d", "e", "f", "g", "h", "i", "j", "k", "l", "m", "n", "o", "p", "q", "r", "s", "t", "u", "v", "w", "x", "y", "z">>

UpperCase ==
    <<"A", "B", "C", "D", "E", "F", "G", "H", "I", "J", "K", "L", "M", "N", "O", "P", "Q", "R", "S", "T", "U", "V", "W", "X", "Y", "Z">>

Digits == <<"0", "1", "2", "3", "4", "5", "6", "7", "8", "9">>

\* the value of a digit character
DigitValue(c) == (CHOOSE i \in 1..10 : Digits[i] = c) - 1

IsDigit(c) == \E i \in 1..10 : Digits[i] = c

toLowerChar(c) ==
    IF \E i \in 1..26 : UpperCase[i] = c
    THEN LowerCase[CHOOSE i \in 1..26 : UpperCase[i] = c]
    ELSE c

toUpperChar(c) ==
    IF \E i \in 1..26 : LowerCase[i] = c
    THEN UpperCase[CHOOSE i \in 1..26 : LowerCase[i] = c]
    ELSE c

\* String.prototype.toLowerCase
toLowerCase(s) == [i \in 1..Len(s) |-> toLowerChar(s[i])]

\* String.prototype.toUpperCase
toUpperCase(s) == [i \in 1..Len(s) |-> toUpperChar(s[i])]

\* String.prototype.includes
includes(text, term) ==
    \E i \in 0..(Len(text) - Len(term)) : SubSeq(text, i + 1, i + Len(term)) = term

\* an optional field that is not set
Absent == [absent |-> TRUE]

\* 'compar', 'diferencia', 'vs'
CompareTriggers ==
    {<<"c", "o", "m", "p", "a", "r">>,
     <<"d", "i", "f", "e", "r", "e", "n", "c", "i", "a">>,
     <<"v", "s">>}

\* 'comprar', 'precio', 'carrito'
PurchaseTriggers ==
    {<<"c", "o", "m", "p", "r", "a", "r">>,
     <<"p", "r", "e", "c", "i", "o">>,
     <<"c", "a", "r", "r", "i", "t", "o">>}

\* '?', 'como', 'que es'
QuestionTriggers ==
    {<<"?">>,
     <<"c", "o", "m", "o">>,
     <<"q", "u", "e", " ", "e", "s">>}

\* 'busco', 'necesito', 'quiero'
SearchTriggers ==
    {<<"b", "u", "s", "c", "o">>,
     <<"n", "e", "c", "e", "s", "i", "t", "o">>,
     <<"q", "u", "i", "e", "r", "o">>}

\* ['televisor', 'celular', 'laptop', 'gaming', 'audio', 'electrodomestico']
categories ==
    <<<<"t", "e", "l", "e", "v", "i", "s", "o", "r">>,
      <<"c", "e", "l", "u", "l", "a", "r">>,
      <<"l", "a", "p", "t", "o", "p">>,
      <<"g", "a", "m", "i", "n", "g">>,
      <<"a", "u", "d", "i", "o">>,
      <<"e", "l", "e", "c", "t", "r", "o", "d", "o", "m", "e", "s", "t", "i", "c", "o">>>>

\* ['samsung', 'lg', 'sony', 'apple', 'lenovo', 'hp', 'dell']
brands ==
    <<<<"s", "a", "m", "s", "u", "n", "g">>,
      <<"l", "g">>,
      <<"s", "o", "n", "y">>,
      <<"a", "p", "p", "l", "e">>,
      <<"l", "e", "n", "o", "v", "o">>,
      <<"h", "p">>,
      <<"d", "e", "l", "l">>>>

\* ['bien', 'perfecto', 'excelente', 'gracias', 'bueno']
positive ==
    {<<"b", "i", "e", "n">>,
     <<"p", "e", "r", "f", "e", "c", "t", "o">>,
     <<"e", "x", "c", "e", "l", "e", "n", "t", "e">>,
     <<"g", "r", "a", "c", "i", "a", "s">>,
     <<"b", "u", "e", "n", "o">>}

\* ['no', 'mal', 'problema', 'error', 'confund']
negative ==
    {<<"n", "o">>,
     <<"m", "a", "l">>,
     <<"p", "r", "o", "b", "l", "e", "m", "a">>,
     <<"e", "r", "r", "o", "r">>,
     <<"c", "o", "n", "f", "u", "n", "d">>}

Str_comprar == <<"c", "o", "m", "p", "r", "a", "r">>
Str_trabajo == <<"t", "r", "a", "b", "a", "j", "o">>
Str_oficina == <<"o", "f", "i", "c", "i", "n", "a">>
Str_gaming == <<"g", "a", "m", "i", "n", "g">>
Str_juego == <<"j", "u", "e", "g", "o">>
Str_estudio == <<"e", "s", "t", "u", "d", "i", "o">>
Str_universidad == <<"u", "n", "i", "v", "e", "r", "s", "i", "d", "a", "d">>

\* the words and phrases the inputs are made of: 'comparar', 'diferencia',
\* 'vs', 'comprar', 'precio', 'carrito', '?', 'como', 'que es', 'busco',
\* 'necesito', 'quiero', 'televisor', 'laptop gaming', 'samsung',
\* '1.500.000', '2000', 'hola', 'gracias', 'trabajo'
Vocabulary ==
    {<<"c", "o", "m", "p", "a", "r", "a", "r">>,
     <<"d", "i", "f", "e", "r", "e", "n", "c", "i", "a">>,
     <<"v", "s">>,
     <<"c", "o", "m", "p", "r", "a", "r">>,
     <<"p", "r", "e", "c", "i", "o">>,
     <<"c", "a", "r", "r", "i", "t", "o">>,
     <<"?">>,
     <<"c", "o", "m", "o">>,
     <<"q", "u", "e", " ", "e", "s">>,
     <<"b", "u", "s", "c", "o">>,
     <<"n", "e", "c", "e", "s", "i", "t", "o">>,
     <<"q", "u", "i", "e", "r", "o">>,
     <<"t", "e", "l", "e", "v", "i", "s", "o", "r">>,
     <<"l", "a", "p", "t", "o", "p", " ", "g", "a", "m", "i", "n", "g">>,
     <<"s", "a", "m", "s", "u", "n", "g">>,
     <<"1", ".", "5", "0", "0", ".", "0", "0", "0">>,
     <<"2", "0", "0", "0">>,
     <<"h", "o", "l", "a">>,
     <<"g", "r", "a", "c", "i", "a", "s">>,
     <<"t", "r", "a", "b", "a", "j", "o">>}

\* text.match(/(\d{1,3}(?:[.,]\d{3})*)/g), one match starting at position i:
\* the position after the first run of one to three digits
DigitsEnd(text, i) ==
    IF i + 1 <= Len(text) /\ IsDigit(text[i + 1])
    THEN IF i + 2 <= Len(text) /\ IsDigit(text[i + 2]) THEN i + 3 ELSE i + 2
    ELSE i + 1

\* a separator and exactly three digits start at position j
GroupAt(text, j) ==
    /\ j + 3 <= Len(text)
    /\ text[j] \in {".", ","}
    /\ IsDigit(text[j + 1]) /\ IsDigit(text[j + 2]) /\ IsDigit(text[j + 3])

RECURSIVE GroupsEnd(_, _)
\* the position after the groups of a separator and three digits that start at j
GroupsEnd(text, j) ==
    IF GroupAt(text, j) THEN GroupsEnd(text, j + 4) ELSE j

RECURSIVE parseInt(_, _, _, _)
\* parseInt(p.replace(/[.,]/g, '')) for the match text[i..j-1], from acc
parseInt(text, i, j, acc) ==
    IF i >= j THEN acc
    ELSE IF IsDigit(text[i]) THEN parseInt(text, i + 1, j, acc * 10 + DigitValue(text[i]))
    ELSE parseInt(text, i + 1, j, acc)

RECURSIVE priceMatch(_, _)
\* the numbers of the matches found in text from position i on
priceMatch(text, i) ==
    IF i > Len(text) THEN <<>>
    ELSE IF ~IsDigit(text[i]) THEN priceMatch(text, i + 1)
    ELSE LET j == GroupsEnd(text, DigitsEnd(text, i))
         IN  <<parseInt(text, i, j, 0)>> \o priceMatch(text, j)

SeqMin(s) == CHOOSE x \in {s[i] : i \in 1..Len(s)} : \A k \in 1..Len(s) : x <= s[k]

SeqMax(s) == CHOOSE x \in {s[i] : i \in 1..Len(s)} : \A k \in 1..Len(s) : x >= s[k]

\* categories.find(cat => text.includes(cat))
FindCategory(text) ==
    IF \E i \in 1..Len(categories) : includes(text, categories[i])
    THEN categories[CHOOSE i \in 1..Len(categories) :
                       /\ includes(text, categories[i])
                       /\ \A k \in 1..(i - 1) : ~includes(text, categories[k])]
    ELSE Undefined

\* confidences are kept in hundredths: 0.7 is 70
ConfDefault == 70
ConfCompare == 90
ConfPurchase == 85
ConfQuestion == 80
ConfSearch == 90

\* a chain that tests the purchase triggers before the compare triggers
ClassifyIntentPurchaseFirst(text) ==
    IF \E t \in PurchaseTriggers : includes(text, t)
    THEN [primary |-> "purchase", confidence |-> ConfPurchase]
    ELSE IF \E t \in CompareTriggers : includes(text, t)
    THEN [primary |-> "compare", confidence |-> ConfCompare]
    ELSE IF \E t \in QuestionTriggers : includes(text, t)
    THEN [primary |-> "question", confidence |-> ConfQuestion]
    ELSE IF \E t \in SearchTriggers : includes(text, t)
    THEN [primary |-> "search", confidence |-> ConfSearch]
    ELSE [primary |-> "search", confidence |-> ConfDefault]

\* the if / else-if chain of analyzeUserIntent
ClassifyIntent(text) ==
    IF \E t \in CompareTriggers : includes(text, t)
    THEN [primary |-> "compare", confidence |-> ConfCompare]
    ELSE IF \E t \in PurchaseTriggers : includes(text, t)
    THEN [primary |-> "purchase", confidence |-> ConfPurchase]
    ELSE IF \E t \in QuestionTriggers : includes(text, t)
    THEN [primary |-> "question", confidence |-> ConfQuestion]
    ELSE IF \E t \in SearchTriggers : includes(text, t)
    THEN [primary |-> "search", confidence |-> ConfSearch]
    ELSE [primary |-> "search", confidence |-> ConfDefault]

\* an analysis that is less sure of every intent
analyzeUserIntentLessSure(input) ==
    LET text == toLowerCase(input)
        c == ClassifyIntent(text)
        prices == priceMatch(text, 1)
    IN  [primary |-> c.primary,
         confidence |-> c.confidence - 20,
         entities |->
            [category |-> FindCategory(text),
             brands |-> SelectSeq(brands, LAMBDA b : includes(text, b)),
             priceRange |-> IF prices = <<>> THEN Absent
                            ELSE [min |-> SeqMin(prices), max |-> SeqMax(prices)],
             features |-> Undefined]]

\* MessageProtocolService.analyzeUserIntent (entities.features is never set)
analyzeUserIntent(input) ==
    LET text == toLowerCase(input)
        c == ClassifyIntent(text)
        prices == priceMatch(text, 1)
    IN  [primary |-> c.primary,
         confidence |-> c.confidence,
         entities |->
            [category |-> FindCategory(text),
             brands |-> SelectSeq(brands, LAMBDA b : includes(text, b)),
             priceRange |-> IF prices = <<>> THEN Absent
                            ELSE [min |-> SeqMin(prices), max |-> SeqMax(prices)],
             features |-> Undefined]]

determineAgentAction(intent) ==
    CASE intent.primary = "search" -> "search"
      [] intent.primary = "compare" -> "comparison"
      [] intent.primary = "question" -> "clarification"
      [] OTHER -> "recommendation"

\* the test for 'comprar' is on the input as typed
determineProgress(intent, input) ==
    IF intent.primary = "purchase" \/ includes(input, Str_comprar) THEN "purchase"
    ELSE IF intent.primary = "compare" THEN "comparison"
    ELSE "research"

assessSatisfaction(input) ==
    LET text == toLowerCase(input)
    IN  IF \E w \in positive : includes(text, w) THEN "high"
        ELSE IF \E w \in negative : includes(text, w) THEN "low"
        ELSE "medium"

determineSearchPhase(turnCount) ==
    IF turnCount <= 2 THEN "discovery"
    ELSE IF turnCount <= 4 THEN "narrowing"
    ELSE IF turnCount <= 6 THEN "comparison"
    ELSE "decision"

\* the criteria object, a missing key being Absent, <<>> or Undefined
extractCriteria(input, intent) ==
    LET text == toLowerCase(input)
    IN  [presupuesto |-> intent.entities.priceRange,
         marcas_preferidas |-> intent.entities.brands,
         uso_principal |->
            IF includes(text, Str_trabajo) \/ includes(text, Str_oficina) THEN Str_trabajo
            ELSE IF includes(text, Str_gaming) \/ includes(text, Str_juego) THEN Str_gaming
            ELSE IF includes(text, Str_estudio) \/ includes(text, Str_universidad)
            THEN Str_estudio
            ELSE Undefined]

\* a list that leaves the use out
identifyMissingInfoNoUse(intent) ==
    (IF intent.entities.category = Undefined THEN <<"categoria">> ELSE <<>>)
    \o (IF intent.entities.priceRange = Absent THEN <<"presupuesto">> ELSE <<>>)

identifyMissingInfo(intent) ==
    (IF intent.entities.category = Undefined THEN <<"categoria">> ELSE <<>>)
    \o (IF intent.entities.priceRange = Absent THEN <<"presupuesto">> ELSE <<>>)
    \o (IF intent.primary = "search"
           /\ (intent.entities.features = Undefined \/ Len(intent.entities.features) = 0)
        THEN <<"uso_principal">> ELSE <<>>)

\* new MessageProtocolService(): the context it starts with
InitialContext ==
    [userProfile |-> Absent, currentSearch |-> Absent, productsContext |-> Absent,
     conversationState |->
        [turnCount |-> 0, lastAgentAction |-> "search", progressTowards |-> "research",
         userSatisfaction |-> "none"]]

\* a turn count that is not read from the previous context
PreviousTurnCountLost(previousContext) == 0

\* previousContext?.conversationState.turnCount || 0
PreviousTurnCount(previousContext) ==
    IF previousContext = Absent THEN 0 ELSE previousContext.conversationState.turnCount

\* a context whose search record never lists what is missing
updateConversationContextNoMissing(input, intent, previousContext) ==
    LET turnCount == PreviousTurnCount(previousContext) + 1
        spread == IF previousContext = Absent
                  THEN [userProfile |-> Absent, currentSearch |-> Absent,
                        productsContext |-> Absent]
                  ELSE [userProfile |-> previousContext.userProfile,
                        currentSearch |-> previousContext.currentSearch,
                        productsContext |-> previousContext.productsContext]
    IN  [userProfile |-> spread.userProfile,
         productsContext |-> spread.productsContext,
         conversationState |->
            [turnCount |-> turnCount,
             lastAgentAction |-> determineAgentAction(intent),
             progressTowards |-> determineProgress(intent, input),
             userSatisfaction |-> assessSatisfaction(input)],
         currentSearch |->
            IF intent.primary = "search"
            THEN [category |-> intent.entities.category,
                  criteria |-> extractCriteria(input, intent),
                  phase |-> determineSearchPhase(turnCount),
                  missingInfo |-> <<>>]
            ELSE spread.currentSearch]

\* MessageProtocolService.updateConversationContext
updateConversationContext(input, intent, previousContext) ==
    LET turnCount == PreviousTurnCount(previousContext) + 1
        spread == IF previousContext = Absent
                  THEN [userProfile |-> Absent, currentSearch |-> Absent,
                        productsContext |-> Absent]
                  ELSE [userProfile |-> previousContext.userProfile,
                        currentSearch |-> previousContext.currentSearch,
                        productsContext |-> previousContext.productsContext]
    IN  [userProfile |-> spread.userProfile,
         productsContext |-> spread.productsContext,
         conversationState |->
            [turnCount |-> turnCount,
             lastAgentAction |-> determineAgentAction(intent),
             progressTowards |-> determineProgress(intent, input),
             userSatisfaction |-> assessSatisfaction(input)],
         currentSearch |->
            IF intent.primary = "search"
            THEN [category |-> intent.entities.category,
                  criteria |-> extractCriteria(input, intent),
                  phase |-> determineSearchPhase(turnCount),
                  missingInfo |-> identifyMissingInfo(intent)]
            ELSE spread.currentSearch]

\* formatForLLMAPI has not been called
NoFormatted == [role |-> "none"]

\* no message has been created
NoStructured == [role |-> "none"]

\* MessageProtocolService.createStructuredMessage: the message it returns
\* (without the timestamp and the message id, which nothing reads)
createStructuredMessage(userInput, sessionId, previousContext) ==
    LET intent == analyzeUserIntent(userInput)
        context == updateConversationContext(userInput, intent, previousContext)
    IN  [role |-> "user",
         content |-> userInput,
         metadata |-> [sessionId |-> sessionId, context |-> context, intent |-> intent,
                       confidence |-> intent.confidence]]

\* the turns of one chain of calls
MaxTurns == 8

\* the words or phrases of one input
MaxWords == 2

RECURSIVE Join(_)
\* the words of ws with a blank between them
Join(ws) ==
    IF Len(ws) = 0 THEN <<>>
    ELSE IF Len(ws) = 1 THEN ws[1]
    ELSE ws[1] \o <<" ">> \o Join(Tail(ws))

Phrases(n) == {Join(ws) : ws \in UNION {[1..k -> Vocabulary] : k \in 0..n}}

Casings == {"lower", "upper", "capital"}

\* the phrase as typed in lower case, in upper case, or with a capital
Cased(p, c) ==
    CASE c = "upper" -> toUpperCase(p)
      [] c = "capital" /\ Len(p) > 0 -> <<toUpperChar(p[1])>> \o Tail(p)
      [] OTHER -> p

\* the inputs of the heuristic
Inputs == {Cased(p, c) : p \in Phrases(MaxWords), c \in Casings}

\* the inputs of the turns of a chain
ChainInputs == Phrases(1)

\* the context of the last message, handed to the next call of a chain
LastContext ==
    IF structured = NoStructured THEN Absent ELSE structured.metadata.context

\* one call of createStructuredMessage by the caller of the service
CreateStructuredMessage(userInput, previousContext) ==
    LET msg == createStructuredMessage(userInput, SessionId(1), previousContext)
    IN  /\ structured' = msg
        /\ previous' = previousContext
        /\ currentContext' = msg.metadata.context
        /\ formatted' = NoFormatted
        /\ UNCHANGED nonHeurVars

RECURSIVE JoinComma(_)
\* missingInfo.join(', ')
JoinComma(list) ==
    IF Len(list) = 0 THEN ""
    ELSE IF Len(list) = 1 THEN list[1]
    ELSE list[1] \o ", " \o JoinComma(Tail(list))

\* the confidence below which the agent is told to clarify (0.6)
ConfClarify == 60

\* the turn count above which the agent is told to change its approach
TurnsBeforeAlternative == 5

\* productsContext.lastSearchResults is undefined or 0
NoSearchResults(context) ==
    \/ context.productsContext = Absent
    \/ context.productsContext.lastSearchResults = 0

\* instructions that never ask the agent to clarify
generateAgentInstructionsNoClarify(context, intent) ==
    (IF /\ intent.primary = "search"
        /\ context.currentSearch # Absent
        /\ Len(context.currentSearch.missingInfo) > 0
     THEN <<"ASK_FOR: " \o JoinComma(context.currentSearch.missingInfo)>>
     ELSE <<>>)
    \o (IF context.conversationState.turnCount > TurnsBeforeAlternative
            /\ NoSearchResults(context)
        THEN <<"SUGGEST_ALTERNATIVE_APPROACH">>
        ELSE <<>>)

\* MessageProtocolService.generateAgentInstructions
generateAgentInstructions(context, intent) ==
    (IF /\ intent.primary = "search"
        /\ context.currentSearch # Absent
        /\ Len(context.currentSearch.missingInfo) > 0
     THEN <<"ASK_FOR: " \o JoinComma(context.currentSearch.missingInfo)>>
     ELSE <<>>)
    \o (IF context.conversationState.turnCount > TurnsBeforeAlternative
            /\ NoSearchResults(context)
        THEN <<"SUGGEST_ALTERNATIVE_APPROACH">>
        ELSE <<>>)
    \o (IF intent.confidence < ConfClarify THEN <<"CLARIFY_USER_INTENT">> ELSE <<>>)

\* MessageProtocolService.formatForLLMAPI: of what it returns, the message
\* it was given and the requestMetadata fields read from its metadata
formatForLLMAPI(userMessage) ==
    [role |-> "user",
     content |-> userMessage.content,
     requestMetadata |->
        [sessionId |-> userMessage.metadata.sessionId,
         userIntent |-> userMessage.metadata.intent,
         conversationContext |-> userMessage.metadata.context,
         agentInstructions |-> generateAgentInstructions(userMessage.metadata.context,
                                                         userMessage.metadata.intent)]]

\* the caller formats a message for the agent
FormatForLLMAPI(userMessage) ==
    /\ formatted' = formatForLLMAPI(userMessage)
    /\ UNCHANGED <<structured, previous, currentContext>>
    /\ UNCHANGED nonHeurVars

(***************************************************************************)
(* AlkostoAPI: the connection status.                                      *)
(***************************************************************************)
\* responseTime > 3000
SlowAfter == 3000

\* the instants at which a status call starts
MaxStart == 3

\* how far past the threshold a health call answers
MaxLate == 2

\* the statuses the health endpoint answers with
HealthStatuses == {200, 204, 299, 300, 304, 404, 500}

\* what the health fetch does: it answers with a status, or it rejects
HealthOutcomes ==
    {[kind |-> "response", status |-> st] : st \in HealthStatuses}
    \cup {[kind |-> "rejected", status |-> 0]}

\* the round trips of the health call, in milliseconds
RoundTrips == {0, 1} \cup ((SlowAfter - 1)..(SlowAfter + MaxLate))

\* Response.ok
ResponseOk(status) == status >= 200 /\ status <= 299

\* AlkostoAPI.healthCheck
healthCheck(o) ==
    IF o.kind = "response" THEN ResponseOk(o.status) ELSE FALSE

\* a status that calls a round trip of exactly the threshold slow
getConnectionStatusAtThreshold(o, startTime, now) ==
    LET isHealthy == healthCheck(o)
        responseTime == now - startTime
    IN  IF ~isHealthy THEN "offline"
        ELSE IF responseTime >= SlowAfter THEN "slow"
        ELSE "online"

\* AlkostoAPI.getConnectionStatus, started at startTime, its health call
\* settling at now
getConnectionStatus(o, startTime, now) ==
    LET isHealthy == healthCheck(o)
        responseTime == now - startTime
    IN  IF ~isHealthy THEN "offline"
        ELSE IF responseTime > SlowAfter THEN "slow"
        ELSE "online"

NoHealth ==
    [pc |-> "idle", startTime |-> 0, now |-> 0,
     outcome |-> [kind |-> "none", status |-> 0], status |-> "none"]

\* getConnectionStatus is called: it reads the clock and issues the health call
GetConnectionStatus(t) ==
    /\ health.pc # "pending"
    /\ health' = [NoHealth EXCEPT !.pc = "pending", !.startTime = t, !.now = t]
    /\ UNCHANGED nonHealthVars

\* the health call settles and getConnectionStatus resolves
HealthCheckSettles(o, rt) ==
    /\ health.pc = "pending"
    /\ health' = [health EXCEPT
                     !.pc = "done",
                     !.now = health.startTime + rt,
                     !.outcome = o,
                     !.status = getConnectionStatus(o, health.startTime, health.startTime + rt)]
    /\ UNCHANGED nonHealthVars

(***************************************************************************)
(* AlkostoAPI.sendMessage: the request of the chat page.  The message of   *)
(* the Error it catches is kept as the terms getErrorMessage searches in   *)
(* it.                                                                     *)
(***************************************************************************)
\* a 2xx answer whose JSON body is {mode, sessionId, response: {response,
\* products, search_readiness, criteria_analysis: {criticalMissing}}}
\* ("" is an absent string field, Undefined an absent list)
ApiBody(mode, text, products, readiness, missing) ==
    [kind |-> "ok", mode |-> mode, text |-> text, products |-> products,
     search_readiness |-> readiness, criticalMissing |-> missing,
     sessionId |-> Undefined]

\* a 2xx answer whose JSON body lacks response.response
ApiInvalid == [kind |-> "invalid"]

ApiBodies ==
    {ApiBody("AI Agent", <<"reply", "a">>, <<"p1">>, "viable", Undefined),
     ApiBody("", <<"reply", "b">>, Undefined, "insufficient", <<"presupuesto">>)}

ApiFailures == {Network({"fetch"}), Http(500, {})}

ApiOutcomes == ApiBodies \cup ApiFailures

\* the terms of `HTTP ${response.status}` that getErrorMessage looks for
HttpTerms(status) ==
    IF status = 500 THEN {"HTTP 500"}
    ELSE IF status = 429 THEN {"HTTP 429"}
    ELSE {}

\* AlkostoAPI.extractSuggestions
extractSuggestions(agentResponse) ==
    LET byReadiness ==
            IF agentResponse.search_readiness = "insufficient"
            THEN <<"Proporciona mas detalles sobre el producto", "Especifica tu presupuesto">>
            ELSE IF agentResponse.search_readiness = "viable"
            THEN <<"Necesitas mas informacion sobre algun producto?",
                   "Quieres ver productos similares?">>
            ELSE <<>>
        byMissing ==
            IF agentResponse.criticalMissing # Undefined /\ Len(agentResponse.criticalMissing) > 0
            THEN <<"Podrias especificar el " \o agentResponse.criticalMissing[1] \o "?">>
            ELSE <<>>
    IN  SliceFirst(byReadiness \o byMissing, 3)

\* AlkostoAPI.getErrorMessage
getErrorMessage(error) ==
    IF error.isError /\ Includes(error, "fetch")
    THEN <<"No puedo conectarme al servidor">>
    ELSE IF error.isError /\ Includes(error, "HTTP 500")
    THEN <<"Error en el servidor">>
    ELSE IF error.isError /\ Includes(error, "HTTP 429")
    THEN <<"Demasiadas consultas">>
    ELSE IF error.isError /\ Includes(error, "Invalid response format")
    THEN <<"Respuesta del servidor invalida">>
    ELSE <<"Ocurrio un error inesperado">>

\* the try block of AlkostoAPI.sendMessage once the fetch has ended in o:
\* the response it returns, or the Error it throws
sendMessageTry(o, sessionId) ==
    CASE o.kind = "ok" ->
            [threw |-> FALSE,
             value |-> [message |-> o.text,
                        confidence |-> IF o.mode = "AI Agent" THEN "HIGH" ELSE "MEDIUM",
                        responseTime |-> 0,
                        products |-> IF o.products = Undefined THEN <<>> ELSE o.products,
                        suggestions |-> extractSuggestions(o),
                        success |-> TRUE,
                        agentType |-> IF o.mode = "" THEN "GraduatedSearchAgent" ELSE o.mode,
                        phase |-> o.search_readiness,
                        sessionId |-> IF o.sessionId = Undefined THEN sessionId ELSE o.sessionId]]
      [] o.kind = "http" ->
            [threw |-> TRUE, value |-> MkError(HttpTerms(o.status) \cup o.text, NaN)]
      [] o.kind = "invalid" ->
            [threw |-> TRUE, value |-> MkError({"Invalid response format"}, NaN)]
      [] o.kind = "badjson" ->
            [threw |-> TRUE, value |-> MkError({}, NaN)]
      [] o.kind = "network" ->
            [threw |-> TRUE, value |-> MkError(o.text, NaN)]

\* an error response that suggests nothing
sendMessageCatchNoSuggestions(error, sessionId) ==
    [message |-> getErrorMessage(error), confidence |-> "LOW", responseTime |-> 0,
     products |-> <<>>,
     suggestions |-> <<>>,
     success |-> FALSE, agentType |-> "ErrorHandler", phase |-> "",
     sessionId |-> sessionId]

\* the catch block of AlkostoAPI.sendMessage (phase: "" is undefined)
sendMessageCatch(error, sessionId) ==
    [message |-> getErrorMessage(error), confidence |-> "LOW", responseTime |-> 0,
     products |-> <<>>,
     suggestions |-> <<"Intenta preguntarme de nuevo", "Revisa tu conexion a internet">>,
     success |-> FALSE, agentType |-> "ErrorHandler", phase |-> "",
     sessionId |-> sessionId]

\* AlkostoAPI.sendMessage from the end of its fetch on: the session id was
\* read before the fetch; the catch block reads it again.  The call never
\* rejects.
sendMessageSettles(o, sessionId, e, f) ==
    LET t == sendMessageTry(o, sessionId)
        g == getSessionId(e, f)
    IN  IF t.threw
        THEN [env |-> g.env, threw |-> FALSE, value |-> sendMessageCatch(t.value, g.value)]
        ELSE [env |-> e, threw |-> FALSE, value |-> t.value]

(***************************************************************************)
(* The chat page and the chat store.  A send is handleSendMessage (page)   *)
(* or sendMessage (store) from its call to the end of its continuation;    *)
(* the awaited backend call settles in a step of its own.  Every message   *)
(* carries the send that created it (`send`; 0 for a message of an         *)
(* earlier visit), which the code does not store.                          *)
(***************************************************************************)
\* the sends of one behaviour
MaxSends == 2

Sends == 1..MaxSends

\* no storage access throws
NoThrows == Throws(FALSE, FALSE, FALSE, FALSE)

\* currentError: null (page), undefined (store)
NoCurrentError == [type |-> "none"]

\* the currentError of the catch blocks
ConnectionError == [type |-> "network", message |-> "Error de conexion", retryable |-> TRUE]

\* the searchContext of the store's initial state and of startNewChat
InitialSearchContext ==
    [lastQuery |-> <<"">>, confidence |-> "MEDIUM", missingCriteria |-> <<>>,
     productCount |-> 0, category |-> Undefined, budgetRange |-> Undefined]

\* a Message object; `prefix_${Date.now()}` is its id
UiMessage(prefix, sender, s, text, now) ==
    [id |-> <<prefix, now>>, text |-> text, sender |-> sender, timestamp |-> Date(now),
     confidence |-> "", suggestions |-> Undefined, products |-> Undefined,
     isError |-> FALSE, send |-> s]

\* the userMessage of handleSendMessage and of the store's sendMessage
UserMessage(s, text, now) == UiMessage("user", "user", s, text, now)

\* the assistantMessage of the try blocks
AssistantMessage(s, response, now) ==
    [UiMessage("assistant", "assistant", s, response.message, now) EXCEPT
        !.confidence = response.confidence,
        !.suggestions = response.suggestions,
        !.products = response.products]

\* the errorMessage of the catch blocks
ErrorMessage(s, now) ==
    [UiMessage("error", "system", s, <<"No pude procesar tu mensaje">>, now) EXCEPT
        !.isError = TRUE,
        !.suggestions = <<"Reintentar", "Verificar conexion">>]

\* the text the user sends with send s
TextOf(s) == <<"text", s>>

\* the state of the user interface before it runs
NoUi ==
    [mounted |-> FALSE, statusKnown |-> FALSE, chatService |-> FALSE,
     messages |-> <<>>, isTyping |-> FALSE, connectionStatus |-> "online",
     products |-> <<>>, sessionId |-> <<"">>, showLanding |-> TRUE,
     currentError |-> NoCurrentError, searchContext |-> InitialSearchContext]

\* the useState initial values of the page: nothing is mounted yet
PageInitial == NoUi

\* the initial state of the store: the session id is generated by the
\* store, which has no chat service yet
StoreInitial == [NoUi EXCEPT !.mounted = TRUE, !.statusKnown = TRUE, !.sessionId = SessionId(1)]

NoSend ==
    [pc |-> "idle", text |-> TextOf(0), sessionId |-> Undefined, overlapped |-> FALSE,
     response |-> NoResponse]

\* the send that starts next
NextSend == 1 + Cardinality({s \in Sends : sends[s].pc # "idle"})

Pending == {s \in Sends : sends[s].pc = "pending"}

\* send s starts: it overlaps every send that is pending
SendsAfterStart(s, sessionId) ==
    [t \in Sends |->
        IF t = s
        THEN [NoSend EXCEPT !.pc = "pending", !.text = TextOf(s), !.sessionId = sessionId,
                            !.overlapped = Pending # {}]
        ELSE IF t \in Pending THEN [sends[t] EXCEPT !.overlapped = TRUE]
        ELSE sends[t]]

SendsAfterSettle(s, response) ==
    [sends EXCEPT ![s].pc = "done", ![s].response = response]

\* the effect on [messages]: `if (messages.length > 0) saveChatHistory(messages)`
SaveEffect(e, messages, f) ==
    IF Len(messages) > 0 THEN saveChatHistory(e, messages, f).env ELSE e

\* the steps of the user interface leave the other parts alone
UiStep ==
    /\ app' = app
    /\ UNCHANGED nonUiVars

(***************************************************************************)
(* The page.                                                               *)
(***************************************************************************)
\* the mount effect up to its await: initializeApp reads the session id and
\* the history; the effect on [messages] then saves a restored list
InitializeApp ==
    /\ app = "page"
    /\ ~ui.mounted
    /\ LET g == getSessionId(env, NoThrows)
           l == loadChatHistory(g.env, NoThrows)
           history == l.value
       IN  /\ g.env.fresh <= MaxIds
           /\ ui' = [ui EXCEPT !.mounted = TRUE,
                               !.sessionId = g.value,
                               !.messages = IF Len(history) > 0 THEN history ELSE @,
                               !.showLanding = IF Len(history) > 0 THEN FALSE ELSE @]
           /\ env' = SaveEffect(l.env, ui'.messages, NoThrows)
    /\ settled' = 0
    /\ sends' = sends
    /\ UiStep

\* the awaited getConnectionStatus of initializeApp resolves
InitializeAppStatus(status) ==
    /\ app = "page"
    /\ ui.mounted
    /\ ~ui.statusKnown
    /\ ui' = [ui EXCEPT !.statusKnown = TRUE, !.connectionStatus = status]
    /\ settled' = 0
    /\ UNCHANGED <<env, sends>>
    /\ UiStep

\* ChatInput sends when it is not disabled
CanType == ~ui.isTyping /\ ui.connectionStatus # "offline"

\* ChatMessage renders the suggestions of a message as buttons
CanClick ==
    \E i \in 1..Len(ui.messages) :
        /\ ui.messages[i].suggestions # Undefined
        /\ Len(ui.messages[i].suggestions) > 0

\* handleSendMessage up to its await, and AlkostoAPI.sendMessage up to its
\* fetch (it reads the session id)
HandleSendMessageStart(s) ==
    LET userMessage == UserMessage(s, TextOf(s), env.clock)
        g == getSessionId(env, NoThrows)
    IN  /\ g.env.fresh <= MaxIds
        /\ ui' = [ui EXCEPT !.messages = Append(@, userMessage),
                            !.isTyping = TRUE,
                            !.products = <<>>,
                            !.currentError = NoCurrentError,
                            !.showLanding = FALSE]
        /\ env' = SaveEffect(g.env, ui'.messages, NoThrows)
        /\ sends' = SendsAfterStart(s, g.value)
        /\ settled' = 0
        /\ UiStep

\* the user sends a message from the chat: ChatInput, or a suggestion button
HandleSendMessage(s) ==
    /\ app = "page"
    /\ ui.mounted
    /\ ~ui.showLanding
    /\ CanType \/ CanClick
    /\ s = NextSend
    /\ HandleSendMessageStart(s)

\* the user picks a suggestion of the landing screen
StartConversation(s) ==
    /\ app = "page"
    /\ ui.mounted
    /\ ui.showLanding
    /\ s = NextSend
    /\ HandleSendMessageStart(s)

\* `if (response.products && response.products.length > 0) setProducts(...)`
PageProducts(products, response) ==
    IF response.products # Undefined /\ Len(response.products) > 0
    THEN response.products
    ELSE products

\* the fetch of send s ends in o: AlkostoAPI.sendMessage resolves and
\* handleSendMessage runs on from its await (try or catch, then finally)
HandleSendMessageSettles(s, o) ==
    /\ app = "page"
    /\ sends[s].pc = "pending"
    /\ LET r == sendMessageSettles(o, sends[s].sessionId, env, NoThrows)
           response == r.value
       IN  /\ r.env.fresh <= MaxIds
           /\ ui' = IF ~r.threw
                    THEN [ui EXCEPT
                            !.messages = Append(@, AssistantMessage(s, response, env.clock)),
                            !.products = PageProducts(@, response),
                            !.connectionStatus = "online",
                            !.isTyping = FALSE]
                    ELSE [ui EXCEPT
                            !.messages = Append(@, ErrorMessage(s, env.clock)),
                            !.connectionStatus = "offline",
                            !.currentError = ConnectionError,
                            !.isTyping = FALSE]
           /\ env' = SaveEffect(r.env, ui'.messages, NoThrows)
           /\ sends' = SendsAfterSettle(s, response)
    /\ settled' = s
    /\ UiStep

\* the "Nueva Conversacion" button, shown while the chat is
HandleNewChat ==
    /\ app = "page"
    /\ ui.mounted
    /\ ~ui.showLanding
    /\ LET r == resetSession(env, NoThrows)
           g == getSessionId(r.env, NoThrows)
       IN  /\ g.env.fresh <= MaxIds
           /\ ui' = [ui EXCEPT !.messages = <<>>,
                               !.products = <<>>,
                               !.showLanding = TRUE,
                               !.currentError = NoCurrentError,
                               !.sessionId = g.value]
           /\ env' = g.env
    /\ settled' = 0
    /\ sends' = sends
    /\ UiStep

(***************************************************************************)
(* The store.  The text of a reply is kept as what the store reads of it:  *)
(* <<"reply", has, budget>>, where has holds the terms of its lower-cased  *)
(* text that the store searches with String.includes and budget is what    *)
(* the budget pattern matches in it (<<>>: no match; <<min, max>>: the two *)
(* numbers).  The messages of ChatService's error responses hold none of   *)
(* the terms, and digits only in `Error del servidor (${statusCode})`.     *)
(***************************************************************************)
ReplyText(has, budget) == <<"reply", has, budget>>

TextHas(text, term) == text[1] = "reply" /\ term \in text[2]

\* text.match(/\$?([\d,]+).*?\$?([\d,]+)/): the first group takes the
\* longest run of digits that leaves one character for the second
TextBudget(text) ==
    IF text[1] = "reply" THEN text[3]
    ELSE IF text[1] = "Error del servidor" /\ IsNum(text[2]) /\ text[2][1] >= 10
    THEN <<text[2][1] \div 10, text[2][1] % 10>>
    ELSE <<>>

\* a body of the chat endpoint ("" is an absent phase)
ChatBody(text, products, agentType, phase) ==
    [message |-> text, confidence |-> "HIGH", products |-> products,
     suggestions |-> Undefined, agentType |-> agentType, phase |-> phase,
     success |-> TRUE, error |-> NoError]

ChatBodies ==
    {ChatBody(ReplyText({"televisor", "gaming", "presupuesto"}, <<1000, 2000>>),
              <<"p1">>, "GraduatedSearchAgent", "viable"),
     ChatBody(ReplyText({"laptop", "uso", "especifica"}, <<>>),
              Undefined, "agent", "")}

\* what the last attempt of a ChatService.sendMessage call ends in
ChatOutcomes ==
    {[kind |-> "ok", data |-> b] : b \in ChatBodies}
    \cup {Network({"fetch"}), Http(418, {})}

\* a sendMessage that rejects when its last attempt fails
chatServiceSendMessageRejects(o) ==
    LET m == makeRequest(o)
    IN  IF m.threw
        THEN [threw |-> TRUE, value |-> ErrorResponse(analyzeError(m.value))]
        ELSE [threw |-> FALSE, value |-> SuccessResponse(m.value)]

\* ChatService.sendMessage, its last attempt ending in o: the call resolves
\* with the success response or with the structured error response
chatServiceSendMessage(o) ==
    LET m == makeRequest(o)
    IN  IF m.threw
        THEN [threw |-> FALSE, value |-> ErrorResponse(analyzeError(m.value))]
        ELSE [threw |-> FALSE, value |-> SuccessResponse(m.value)]

\* response.phase (an error response has none)
PhaseOf(response) == IF "phase" \in DOMAIN response THEN response.phase ELSE ""

responseCategories == <<"televisor", "celular", "laptop", "gaming", "audio", "electrodomestico">>

\* extractCategoryFromResponse
extractCategoryFromResponse(response) ==
    LET found == {i \in 1..Len(responseCategories) :
                     TextHas(response.message, responseCategories[i])}
    IN  IF response.agentType = "GraduatedSearchAgent" /\ PhaseOf(response) # "" /\ found # {}
        THEN <<responseCategories[CHOOSE i \in found : \A j \in found : i <= j]>>
        ELSE Undefined

\* extractBudgetFromResponse
extractBudgetFromResponse(response) ==
    IF TextBudget(response.message) # <<>>
    THEN TextBudget(response.message)
    ELSE Undefined

\* extractMissingCriteria
extractMissingCriteria(response) ==
    LET text == response.message
    IN  (IF TextHas(text, "presupuesto") \/ TextHas(text, "precio") THEN <<"budget">> ELSE <<>>)
        \o (IF TextHas(text, "uso") \/ TextHas(text, "utilizar") THEN <<"use_case">> ELSE <<>>)
        \o (IF TextHas(text, "caracteristica") \/ TextHas(text, "especifica")
            THEN <<"features">> ELSE <<>>)

\* `response.products || []`
ProductsOrEmpty(response) ==
    IF response.products = Undefined THEN <<>> ELSE response.products

\* the searchContext of the store after a reply
SearchContextAfter(messageText, response) ==
    [lastQuery |-> messageText,
     confidence |-> response.confidence,
     productCount |-> Len(ProductsOrEmpty(response)),
     category |-> extractCategoryFromResponse(response),
     budgetRange |-> extractBudgetFromResponse(response),
     missingCriteria |-> extractMissingCriteria(response)]

\* initializeChatService
InitializeChatService ==
    /\ app = "store"
    /\ ~ui.chatService
    /\ ui' = [ui EXCEPT !.chatService = TRUE]
    /\ settled' = 0
    /\ UNCHANGED <<env, sends>>
    /\ UiStep

\* a sendMessage that puts the user's message in front of the list
StoreSendMessagePrepends(s) ==
    /\ app = "store"
    /\ ui.chatService
    /\ s = NextSend
    /\ ui' = [ui EXCEPT !.messages = <<UserMessage(s, TextOf(s), env.clock)>> \o @,
                        !.isTyping = TRUE,
                        !.products = <<>>,
                        !.currentError = NoCurrentError,
                        !.showLanding = FALSE]
    /\ sends' = SendsAfterStart(s, ui.sessionId)
    /\ settled' = 0
    /\ env' = env
    /\ UiStep

\* the store's sendMessage up to its await (without a chat service it
\* returns at once)
StoreSendMessage(s) ==
    /\ app = "store"
    /\ ui.chatService
    /\ s = NextSend
    /\ ui' = [ui EXCEPT !.messages = Append(@, UserMessage(s, TextOf(s), env.clock)),
                        !.isTyping = TRUE,
                        !.products = <<>>,
                        !.currentError = NoCurrentError,
                        !.showLanding = FALSE]
    /\ sends' = SendsAfterStart(s, ui.sessionId)
    /\ settled' = 0
    /\ env' = env
    /\ UiStep

\* the ChatService call of send s resolves and the store's sendMessage runs
\* on from its await
StoreSendMessageSettles(s, o) ==
    /\ app = "store"
    /\ sends[s].pc = "pending"
    /\ LET r == chatServiceSendMessage(o)
           response == r.value
       IN  /\ ui' = IF ~r.threw
                    THEN [ui EXCEPT
                            !.messages = Append(@, AssistantMessage(s, response, env.clock)),
                            !.products = ProductsOrEmpty(response),
                            !.connectionStatus = "online",
                            !.isTyping = FALSE,
                            !.searchContext = SearchContextAfter(sends[s].text, response)]
                    ELSE [ui EXCEPT
                            !.messages = Append(@, ErrorMessage(s, env.clock)),
                            !.connectionStatus = "offline",
                            !.isTyping = FALSE,
                            !.currentError = ConnectionError]
           /\ sends' = SendsAfterSettle(s, response)
    /\ settled' = s
    /\ env' = env
    /\ UiStep

\* startNewChat: the store generates the next session id
StartNewChat ==
    /\ app = "store"
    /\ ui.sessionId[2] < MaxIds
    /\ ui' = [ui EXCEPT !.messages = <<>>,
                        !.products = <<>>,
                        !.showLanding = TRUE,
                        !.sessionId = SessionId(ui.sessionId[2] + 1),
                        !.currentError = NoCurrentError,
                        !.searchContext = InitialSearchContext]
    /\ settled' = 0
    /\ UNCHANGED <<env, sends>>
    /\ UiStep

\* the strings handed to importChatHistory: one that is no JSON, an object
\* with none of the keys, and an export of a chat of one message (JSON.parse
\* leaves its timestamp a string)
ImportData ==
    {[parses |-> FALSE, keys |-> {}, messages |-> <<>>,
      searchContext |-> InitialSearchContext, sessionId |-> SessionId(1)],
     [parses |-> TRUE, keys |-> {}, messages |-> <<>>,
      searchContext |-> InitialSearchContext, sessionId |-> SessionId(1)],
     [parses |-> TRUE, keys |-> {"messages", "searchContext", "sessionId"},
      messages |-> Stringify(<<UserMessage(0, TextOf(0), 0)>>),
      searchContext |-> InitialSearchContext, sessionId |-> SessionId(1)]}

\* importChatHistory (data.keys: the keys of the parsed object)
ImportChatHistory(data) ==
    /\ app = "store"
    /\ ui' = IF data.parses
             THEN [ui EXCEPT
                     !.messages = IF "messages" \in data.keys THEN data.messages ELSE <<>>,
                     !.searchContext = IF "searchContext" \in data.keys
                                       THEN data.searchContext ELSE @,
                     !.sessionId = IF "sessionId" \in data.keys THEN data.sessionId ELSE @,
                     !.showLanding = "messages" \in data.keys /\ data.messages = <<>>]
             ELSE ui
    /\ settled' = 0
    /\ UNCHANGED <<env, sends>>
    /\ UiStep

(***************************************************************************)
(* The specifications.                                                     *)
(***************************************************************************)
UiIdle ==
    /\ app = "none"
    /\ ui = NoUi
    /\ sends = [s \in Sends |-> NoSend]
    /\ settled = 0

ClassIdle == thrown = MkError({}, NaN) /\ ctx = NoError

ChatIdle ==
    /\ retries = 0
    /\ retryCount = 0
    /\ calls = [c \in Calls |-> IdleCall]

StoreIdle ==
    /\ env = [hasWindow |-> FALSE, session |-> NoSession, history |-> NoHistory,
              clock |-> 0, fresh |-> 0]
    /\ ret = NoRet
    /\ lastSaved = NoList

HealthIdle == health = NoHealth

HeurIdle ==
    /\ structured = NoStructured
    /\ previous = Absent
    /\ currentContext = InitialContext
    /\ formatted = NoFormatted

\* new ChatService(config)
ChatInit ==
    /\ retries \in 0..MaxRetries
    /\ retryCount = 0
    /\ calls = [c \in Calls |-> IdleCall]

Init == ChatInit /\ ClassIdle /\ StoreIdle /\ HeurIdle /\ HealthIdle /\ UiIdle

Next ==
    \/ \E c \in Calls, s \in Scripts : StartCall(c, s, FALSE)
    \/ \E c \in Calls : Step(c)

Spec == Init /\ [][Next]_vars

NextOverlap ==
    \/ \E c \in Calls, s \in OverlapScripts : StartCall(c, s, TRUE)
    \/ \E c \in Calls : Step(c)

SpecOverlap == Init /\ [][NextOverlap]_vars

\* the event loop runs every continuation that is ready: a fetch that was
\* issued settles or is aborted by its timeout, and a timer that was set fires
SpecOverlapFair ==
    /\ SpecOverlap
    /\ \A c \in Calls :
          /\ WF_vars(AttemptSucceeds(c) \/ AttemptRetries(c) \/ AttemptFails(c))
          /\ WF_vars(BackoffDone(c))

InitClassify ==
    /\ thrown \in ThrownValues
    /\ ctx = NoError
    /\ ChatIdle
    /\ StoreIdle
    /\ HeurIdle
    /\ HealthIdle
    /\ UiIdle

NextClassify == Classify

SpecClassify == InitClassify /\ [][NextClassify]_vars

\* calls whose every attempt fails in the same way
FailingScripts == {Script(f, MaxFails, f) : f \in Failures}

\* one ChatService instance on which calls fail for good: no attempt
\* succeeds
NextTerminal ==
    \/ \E c \in Calls, s \in FailingScripts : StartCall(c, s, TRUE)
    \/ \E c \in Calls :
          \/ AttemptRetries(c)
          \/ AttemptFails(c)
          \/ BackoffDone(c)
          \/ Retire(c)

SpecTerminal == Init /\ [][NextTerminal]_vars

\* a page load: on the server (no window) or in a browser whose storage
\* is empty
InitStore ==
    /\ env \in {[hasWindow |-> w, session |-> NoSession, history |-> NoHistory,
                 clock |-> 0, fresh |-> 0] : w \in BOOLEAN}
    /\ ret = NoRet
    /\ lastSaved = NoList
    /\ ChatIdle
    /\ ClassIdle
    /\ HeurIdle
    /\ HealthIdle
    /\ UiIdle

NextStore ==
    \E dt \in {0, 1}, a \in BOOLEAN, b \in BOOLEAN :
        \/ \E n \in Lengths, h \in BOOLEAN : SaveChatHistory(n, Throws(a, b, h, FALSE), dt)
        \/ \E h \in BOOLEAN : LoadChatHistory(Throws(a, b, h, FALSE), dt)
        \/ GetCurrentSessionId(Throws(a, b, FALSE, FALSE), dt)
        \/ ResetSession(Throws(FALSE, a, FALSE, b), dt)
        \/ SendMessageGetSessionId(Throws(a, b, FALSE, FALSE), dt)

SpecStore == InitStore /\ [][NextStore]_vars

\* new MessageProtocolService()
InitHeur == ChatIdle /\ ClassIdle /\ StoreIdle /\ HeurIdle /\ HealthIdle /\ UiIdle

\* one call on a fresh service, with no previous context
NextIntent ==
    /\ structured = NoStructured
    /\ \E input \in Inputs : CreateStructuredMessage(input, Absent)

SpecIntent == InitHeur /\ [][NextIntent]_vars

\* a chain of calls, each given the context the call before it returned
NextChain ==
    /\ PreviousTurnCount(LastContext) < MaxTurns
    /\ \E input \in ChainInputs : CreateStructuredMessage(input, LastContext)

SpecChain == InitHeur /\ [][NextChain]_vars

\* contexts a caller hands in: none, or one kept from earlier turns, with or
\* without the number of products its last search found
CallerContexts ==
    {Absent}
    \cup {[InitialContext EXCEPT !.conversationState.turnCount = t,
                                 !.productsContext = p,
                                 !.currentSearch = c] :
            t \in {TurnsBeforeAlternative - 1, TurnsBeforeAlternative},
            p \in {Absent, [lastSearchResults |-> 0], [lastSearchResults |-> 3]},
            c \in {Absent,
                   [category |-> Undefined,
                    criteria |-> [presupuesto |-> Absent, marcas_preferidas |-> <<>>,
                                  uso_principal |-> Undefined],
                    phase |-> "narrowing",
                    missingInfo |-> <<"categoria", "presupuesto">>]}}

\* the messages a caller formats: the one createStructuredMessage returned,
\* or that message with the intent confidence set by another classifier
CallerMessages ==
    {structured}
    \cup {[structured EXCEPT !.metadata.intent.confidence = c] :
            c \in {ConfClarify - 1, ConfClarify}}

\* one message created from a caller's context, then formatted once
NextFormat ==
    \/ /\ structured = NoStructured
       /\ \E input \in ChainInputs, previousContext \in CallerContexts :
             CreateStructuredMessage(input, previousContext)
    \/ /\ structured # NoStructured
       /\ formatted = NoFormatted
       /\ \E userMessage \in CallerMessages : FormatForLLMAPI(userMessage)

SpecFormat == InitHeur /\ [][NextFormat]_vars

\* a chain of calls, each message formatted as createStructuredMessage
\* returned it
NextChainFormat ==
    \/ NextChain
    \/ /\ structured # NoStructured
       /\ formatted = NoFormatted
       /\ FormatForLLMAPI(structured)

SpecChainFormat == InitHeur /\ [][NextChainFormat]_vars

InitHealth == ChatIdle /\ ClassIdle /\ StoreIdle /\ HeurIdle /\ HealthIdle /\ UiIdle

NextHealth ==
    \/ \E t \in 0..MaxStart : GetConnectionStatus(t)
    \/ \E o \in HealthOutcomes, rt \in RoundTrips : HealthCheckSettles(o, rt)

SpecHealth == InitHealth /\ [][NextHealth]_vars

\* a browser whose storage is empty
EmptyBrowser ==
    [hasWindow |-> TRUE, session |-> NoSession, history |-> NoHistory,
     clock |-> 0, fresh |-> 0]

\* a browser that holds the session and the history of an earlier visit
UsedBrowser ==
    [EmptyBrowser EXCEPT
        !.fresh = 1,
        !.session = SessionId(1),
        !.history = [sessionId |-> SessionId(1),
                     messages |-> Stringify(<<UserMessage(0, TextOf(0), 0)>>),
                     lastUpdated |-> ToISO(Date(0))]]

\* the statuses getConnectionStatus resolves with
ConnectionStatuses ==
    {getConnectionStatus(o, 0, rt) : o \in HealthOutcomes, rt \in RoundTrips}

\* the page is rendered in a browser, or the store is created
InitUI ==
    /\ app \in {"page", "store"}
    /\ ui = IF app = "page" THEN PageInitial ELSE StoreInitial
    /\ sends = [s \in Sends |-> NoSend]
    /\ settled = 0
    /\ env \in IF app = "page" THEN {EmptyBrowser, UsedBrowser} ELSE {EmptyBrowser}
    /\ ret = NoRet
    /\ lastSaved = NoList
    /\ ChatIdle
    /\ ClassIdle
    /\ HeurIdle
    /\ HealthIdle

NextUI ==
    \/ InitializeApp
    \/ \E status \in ConnectionStatuses : InitializeAppStatus(status)
    \/ \E s \in Sends : StartConversation(s)
    \/ \E s \in Sends : HandleSendMessage(s)
    \/ \E s \in Sends, o \in ApiOutcomes : HandleSendMessageSettles(s, o)
    \/ HandleNewChat
    \/ InitializeChatService
    \/ \E s \in Sends : StoreSendMessage(s)
    \/ \E s \in Sends, o \in ChatOutcomes : StoreSendMessageSettles(s, o)
    \/ StartNewChat

SpecUI == InitUI /\ [][NextUI]_vars

\* the user interface with the import of an exported chat
NextUIImport ==
    \/ NextUI
    \/ \E data \in ImportData : ImportChatHistory(data)

SpecUIImport == InitUI /\ [][NextUIImport]_vars

\* a backend call settles
Settles ==
    \E s \in Sends :
        \/ \E o \in ApiOutcomes : HandleSendMessageSettles(s, o)
        \/ \E o \in ChatOutcomes : StoreSendMessageSettles(s, o)

\* while backend calls are pending, one of them settles: with the sends of
\* a behaviour bounded, every backend call settles
SpecUIFair == SpecUI /\ WF_vars(Settles)

\* every storage access throws
AllThrow == Throws(TRUE, TRUE, TRUE, TRUE)

\* a browser that holds a session id and no history
SessionBrowser == [UsedBrowser EXCEPT !.history = NoHistory]

\* a browser whose history item is no JSON
CorruptBrowser == [UsedBrowser EXCEPT !.history = CorruptHistory]

\* a browser in any of these states, whose storage is then unavailable
InitStoreDown ==
    /\ env \in {EmptyBrowser, SessionBrowser, UsedBrowser, CorruptBrowser}
    /\ ret = NoRet
    /\ lastSaved = NoList
    /\ ChatIdle
    /\ ClassIdle
    /\ HeurIdle
    /\ HealthIdle
    /\ UiIdle

\* the operations with every storage access throwing, and loadChatHistory
\* reading an item that is no JSON
NextStoreDown ==
    \E dt \in {0, 1} :
        \/ \E n \in Lengths : SaveChatHistory(n, AllThrow, dt)
        \/ LoadChatHistory(AllThrow, dt)
        \/ GetCurrentSessionId(AllThrow, dt)
        \/ ResetSession(AllThrow, dt)
        \/ env.history = CorruptHistory /\ LoadChatHistory(NoThrows, dt)

SpecStoreDown == InitStoreDown /\ [][NextStoreDown]_vars

(***************************************************************************)
(* Claims about ChatService.                                               *)
(***************************************************************************)
ErrorTypes == {"network", "server", "rate_limit", "validation", "unknown"}

IsErrorPayload(r) ==
    /\ r.success = FALSE
    /\ r.confidence = "LOW"
    /\ r.products = <<>>
    /\ r.agentType = "ErrorHandler"
    /\ r.error.type \in ErrorTypes
    /\ r.error.retryable \in BOOLEAN

IsSuccessPayload(r) == r.success = TRUE /\ r.error = NoError

Done(c) == calls[c].pc = "done"

FirstOutcome(c) == OutcomeAt(calls[c].script, 1)

\* the outcome is a failure that analyzeError classifies as retryable
Retryable(o) ==
    makeRequest(o).threw /\ analyzeError(makeRequest(o).value).retryable

\* the outcome is a failure that analyzeError classifies as a retryable
\* network error
NetworkRetryable(o) ==
    Retryable(o) /\ analyzeError(makeRequest(o).value).type = "network"

\* C1: sendMessage never rejects: whatever the transport does and whatever
\* the retry counter is, a call only ever is in flight or settled, and a
\* settled call resolved to a success payload (success = true) or to a
\* structured error payload (success = false, confidence LOW, no products,
\* agentType 'ErrorHandler', an error context attached).
C1_NeverRejects ==
    \A c \in Calls :
        /\ calls[c].pc \in {"idle", "attempt", "backoff", "done"}
        /\ Done(c) =>
              \/ IsSuccessPayload(calls[c].response)
              \/ IsErrorPayload(calls[c].response)
        /\ ~Done(c) => calls[c].response = NoResponse

\* a call that started with the counter above 0 and met a body that is no
\* JSON resolved to an 'unknown' error payload
C1_Witness ==
    \E c \in Calls :
        /\ Done(c)
        /\ calls[c].startCount > 0
        /\ FirstOutcome(c) = BadJson
        /\ IsErrorPayload(calls[c].response)
        /\ calls[c].response.error.type = "unknown"

\* C2: a call whose first attempt is answered with HTTP status 400 makes
\* exactly one attempt and resolves with a validation error response,
\* whatever the retry maximum and the retry counter.
C2_Http400NeverRetried ==
    \A c \in Calls :
        (calls[c].pc # "idle" /\ FirstOutcome(c).kind = "http" /\ FirstOutcome(c).status = 400)
        => /\ calls[c].attempts = 1
           /\ calls[c].pc \in {"attempt", "done"}
           /\ Done(c) => /\ calls[c].response.success = FALSE
                         /\ calls[c].response.error.type = "validation"

\* the transport fails the first N = retries attempts with a retryable
\* network error and then succeeds
FailsNThenSucceeds(s) ==
    /\ s.n = retries
    /\ s.n > 0 => NetworkRetryable(s.fail)
    /\ s.final.kind = "ok"

\* C3: a call that starts with the counter at 0, runs alone, and whose
\* attempts 1..N fail with a network-retryable error while attempt N+1
\* succeeds, makes exactly N+1 attempts, resolves with success = true and
\* leaves the counter at 0.
C3_RetriesThenSucceeds ==
    \A c \in Calls :
        (Done(c) /\ calls[c].alone /\ calls[c].startCount = 0
            /\ FailsNThenSucceeds(calls[c].script))
        => /\ calls[c].attempts = retries + 1
           /\ calls[c].response.success = TRUE
           /\ calls[c].endCount = 0

C3_Witness ==
    \E c \in Calls :
        /\ Done(c) /\ calls[c].alone /\ calls[c].startCount = 0
        /\ FailsNThenSucceeds(calls[c].script)
        /\ retries = MaxRetries
        /\ calls[c].attempts = MaxRetries + 1
        /\ calls[c].response.success = TRUE

\* the steps of one request: ATTEMPT -> DONE on success; ATTEMPT -> RETRY
\* only on a retryable failure with the counter below the maximum;
\* ATTEMPT -> DONE-with-error otherwise; RETRY -> ATTEMPT
C4_Step(c) ==
    LET pc  == calls[c].pc
        pc2 == calls'[c].pc
        r   == makeRequest(Current(c))
    IN  \/ pc2 = pc
        \/ pc = "idle" /\ pc2 = "attempt"
        \/ pc = "attempt" /\ pc2 = "done" /\ ~r.threw /\ calls'[c].response.success = TRUE
        \/ pc = "attempt" /\ pc2 = "backoff" /\ r.threw
              /\ analyzeError(r.value).retryable /\ retryCount < retries
        \/ pc = "attempt" /\ pc2 = "done" /\ r.threw
              /\ ~(analyzeError(r.value).retryable /\ retryCount < retries)
              /\ calls'[c].response.success = FALSE
        \/ pc = "backoff" /\ pc2 = "attempt"
        \/ pc = "done" /\ pc2 = "idle"

C4_StateMachine == [][\A c \in Calls : C4_Step(c)]_vars

C4_AloneBound ==
    \A c \in Calls : (calls[c].pc # "idle" /\ calls[c].alone) => calls[c].attempts <= retries + 1

C4_EveryRequestSettles == \A c \in Calls : InFlight(c) ~> Done(c)

\* C4: every request follows the state machine ATTEMPT -> DONE |
\* (classify -> RETRY -> ATTEMPT | DONE-with-error); every request
\* eventually reaches DONE or DONE-with-error when every attempt settles;
\* and a request running alone makes at most (retries + 1) attempts.
C4_RequestStateMachine ==
    /\ C4_StateMachine
    /\ []C4_AloneBound
    /\ C4_EveryRequestSettles

SuccessStep(c) ==
    calls[c].pc = "attempt" /\ calls'[c].pc = "done" /\ calls'[c].response.success = TRUE

ExhaustedStep(c) ==
    /\ calls[c].pc = "attempt" /\ calls'[c].pc = "done"
    /\ calls'[c].response.success = FALSE
    /\ calls'[c].response.error.retryable

\* C5: the counter is reset to 0 by every successful attempt and by nothing
\* else; when a call ends with its retries exhausted the counter is at the
\* maximum; and a call that starts with the counter at the maximum and
\* whose first attempt fails with a retryable error makes exactly one
\* attempt and resolves with the error.
C5_CounterResetOnlyBySuccess ==
    [][ /\ \A c \in Calls : SuccessStep(c) => retryCount' = 0
        /\ retryCount' < retryCount => \E c \in Calls : SuccessStep(c)
        /\ \A c \in Calls : ExhaustedStep(c) => retryCount' = retries
        /\ \A c \in Calls :
              (calls'[c].pc # "idle" /\ calls'[c].startCount = retries
                  /\ Retryable(OutcomeAt(calls'[c].script, 1)))
              => /\ calls'[c].attempts = 1
                 /\ calls'[c].pc \in {"attempt", "done"}
                 /\ calls'[c].pc = "done" => calls'[c].response.success = FALSE
      ]_vars

\* after an earlier call exhausted the retries, a call whose first attempt
\* failed with a retryable error has resolved after one attempt
C5_Witness ==
    \E c \in Calls :
        /\ Done(c)
        /\ retries > 0
        /\ calls[c].startCount = retries
        /\ Retryable(FirstOutcome(c))
        /\ calls[c].attempts = 1
        /\ calls[c].response.success = FALSE
        /\ retryCount = retries

\* what the claim's ordered rules give for a thrown value
C6_Rules(e) ==
    IF ~e.isError THEN <<"unknown", FALSE>>
    ELSE IF "fetch" \in e.has \/ "NetworkError" \in e.has THEN <<"network", TRUE>>
    ELSE IF "HTTP_" \in e.has THEN
        IF e.code = Num(429) THEN <<"rate_limit", TRUE>>
        ELSE IF e.code # NaN /\ e.code[1] >= 500 THEN <<"server", TRUE>>
        ELSE IF e.code = Num(400) THEN <<"validation", FALSE>>
        ELSE <<"server", FALSE>>
    ELSE IF "aborted" \in e.has \/ "timeout" \in e.has THEN <<"network", TRUE>>
    ELSE IF "INVALID_RESPONSE" \in e.has THEN <<"validation", FALSE>>
    ELSE <<"unknown", FALSE>>

\* C6: analyzeError classifies by the ordered rules, first match wins:
\* fetch/NetworkError -> network, retryable (also when the message encodes
\* an HTTP status); 429 -> rate_limit, retryable; >= 500 -> server,
\* retryable; 400 -> validation, not retryable; 404 and any other or
\* unparsable status -> server, not retryable; aborted/timeout -> network,
\* retryable; INVALID_RESPONSE -> validation, not retryable; anything else,
\* a non-Error value included -> unknown, not retryable.
C6_ClassificationRules ==
    ctx # NoError => <<ctx.type, ctx.retryable>> = C6_Rules(thrown)

\* an Error whose message mentions fetch and encodes HTTP status 400 was
\* classified network, retryable
C6_Witness ==
    /\ ctx # NoError
    /\ thrown = MkError({"fetch", "HTTP_"}, Num(400))
    /\ ctx.type = "network"
    /\ ctx.retryable

\* the same call run alone against the same transport script, from the
\* counter value k, at attempt i
RECURSIVE AloneRun(_, _, _)
AloneRun(s, i, k) ==
    LET r == makeRequest(OutcomeAt(s, i))
    IN  IF ~r.threw
        THEN [attempts |-> i, response |-> SuccessResponse(r.value)]
        ELSE IF analyzeError(r.value).retryable /\ k < retries
        THEN AloneRun(s, i + 1, k + 1)
        ELSE [attempts |-> i, response |-> ErrorResponse(analyzeError(r.value))]

\* C7: overlapping calls are independent: each settled call made the number
\* of attempts and got the outcome it would have had running alone against
\* the same transport outcomes.
C7_OverlapIndependent ==
    \A c \in Calls :
        Done(c) =>
            /\ calls[c].attempts = AloneRun(calls[c].script, 1, calls[c].startCount).attempts
            /\ calls[c].response = AloneRun(calls[c].script, 1, calls[c].startCount).response

(***************************************************************************)
(* Claims about AlkostoAPI's session and history.                          *)
(***************************************************************************)
\* the last HistoryCap elements of a list, all of them when it is shorter
C8_LastOf(list) ==
    IF Len(list) <= HistoryCap THEN list
    ELSE SubSeq(list, Len(list) - HistoryCap + 1, Len(list))

\* C8: with working storage and no reset in between, loadChatHistory after
\* saveChatHistory(messages) returns exactly the last 50 elements of
\* messages (all when there are at most 50), in order, timestamps revived
\* to the same instants; the stored record never holds more than 50
\* messages and carries the session id current at save time.
C8_SaveLoadRoundTrip ==
    /\ (ret.op = "load" /\ ~ret.threw /\ lastSaved.valid)
          => ret.value = C8_LastOf(lastSaved.list)
    /\ env.history # NoHistory => Len(env.history.messages) <= HistoryCap
    /\ (ret.op = "save" /\ ~ret.threw /\ env.hasWindow)
          => /\ env.history # NoHistory
             /\ env.history.sessionId = ret.sid
             /\ env.history.sessionId = env.session

\* a list longer than the cap was saved, and the load returned its last
\* HistoryCap messages
C8_Witness ==
    /\ ret.op = "load" /\ ~ret.threw /\ lastSaved.valid
    /\ Len(lastSaved.list) > HistoryCap
    /\ Len(ret.value) = HistoryCap
    /\ ret.value[1] = Message(Len(lastSaved.list) - HistoryCap + 1)
    /\ ret.value[HistoryCap] = Message(Len(lastSaved.list))

\* C9: loadChatHistory returns a non-empty list only if a history record is
\* stored and its session id is the current session id (the one
\* getSessionId gives the call); what it returns is that record's list,
\* never one saved under another session id.
C9_LoadOnlyCurrentSession ==
    (ret.op = "load" /\ ret.value # <<>>)
    => /\ env.history # NoHistory
       /\ env.history.sessionId = ret.sid
       /\ ret.value = Revive(env.history.messages)
       /\ ~ret.threw => env.history.sessionId = env.session

\* a load returned the stored messages of the current session
C9_Witness ==
    /\ ret.op = "load"
    /\ Len(ret.value) = HistoryCap
    /\ env.history.sessionId = ret.sid
    /\ env.session = ret.sid

C21_PersistenceFailuresNonFatal ==
    [][ /\ env'.session = env.session
        /\ env'.history = env.history
        /\ ret'.op = "getCurrentSessionId" => ret'.value = TempId(env'.clock)
        /\ ret'.op = "save" => ret'.value = Undefined
        /\ ret'.op = "load" => ret'.value = <<>>
        /\ ret'.op = "reset" => ret'.value = Undefined
      ]_vars

\* C21 witness: with storage unavailable, a load after a reset returned an
\* empty list while the history of the persisted session is still stored.
C21_Witness ==
    /\ ret.op = "load" /\ ret.prevOp = "reset"
    /\ ret.threw
    /\ ret.value = <<>>
    /\ env.session = SessionId(1)
    /\ env.history # NoHistory
    /\ env.history.sessionId = env.session
    /\ Len(env.history.messages) > 0

\* storage that reads without throwing, whose writes may throw
ReadingStorage == {Throws(FALSE, set, FALSE, remove) : set \in BOOLEAN, remove \in BOOLEAN}

\* C29: resetSession is all-or-nothing with respect to visible history when
\* storage writes can fail: if writing the new session id throws, the
\* persisted session id and the stored history record are both left
\* unchanged, so loadChatHistory still returns the old history; if the
\* write succeeds but deleting the history record throws, the old record
\* stays in storage but loadChatHistory returns an empty list.
C29_ResetAllOrNothing ==
    [][ LET writeThrew == /\ ret'.op = "reset" /\ env.hasWindow
                          /\ ret'.threw /\ ret'.sid = Undefined
            removeThrew == ret'.op = "reset" /\ ret'.threw /\ ret'.sid # Undefined
            before == [env EXCEPT !.clock = env'.clock]
        IN  /\ writeThrew =>
                  /\ env'.session = env.session
                  /\ env'.history = env.history
                  /\ \A f \in ReadingStorage :
                        loadChatHistory(env', f).value = loadChatHistory(before, f).value
            /\ removeThrew =>
                  /\ env'.history = env.history
                  /\ env'.session = ret'.sid
                  /\ env'.session # env.session
                  /\ \A f \in ReadingStorage : loadChatHistory(env', f).value = <<>>
            /\ (ret'.op = "load" /\ ret.op = "reset" /\ ret.threw /\ ~ret'.threw
                   /\ ret.sid # Undefined)
                  => ret'.value = <<>>
      ]_vars

\* a reset whose write threw was followed by a load, which returned the
\* history of the session that is still the persisted one
C29_Witness ==
    /\ ret.op = "load" /\ ret.prevOp = "reset" /\ ~ret.prevHadSid
    /\ env.hasWindow
    /\ ~ret.threw
    /\ Len(ret.value) > 0
    /\ env.history # NoHistory
    /\ env.history.sessionId = env.session
    /\ ret.value = Revive(env.history.messages)

SessionReaders == {"getCurrentSessionId", "send"}

\* C11: with working storage the session id is created once and is stable:
\* the first getSessionId persists a generated id, every later
\* getSessionId / getCurrentSessionId returns the persisted id, and a
\* persisted id changes only in a resetSession step; saveChatHistory,
\* loadChatHistory and sendMessage never change it.
C11_SessionIdStable ==
    [][ /\ (env.session # NoSession /\ ret'.op # "reset")
              => env'.session = env.session
        /\ (env.hasWindow /\ ~ret'.threw /\ ret'.op \in SessionReaders)
              => /\ ret'.value = env'.session
                 /\ env.session # NoSession => ret'.value = env.session
                 /\ env.session = NoSession
                       => /\ env'.session = SessionId(env'.fresh)
                          /\ env'.fresh = env.fresh + 1
      ]_vars

\* after a send, getCurrentSessionId returned the one id generated so far,
\* which is the persisted one
C11_Witness ==
    /\ ret.op = "getCurrentSessionId" /\ ret.prevOp = "send" /\ ret.prevHadSid
    /\ ~ret.threw
    /\ env.fresh = 1
    /\ ret.value = SessionId(1)
    /\ env.session = SessionId(1)
    /\ env.history # NoHistory

(***************************************************************************)
(* Claims about MessageProtocolService.                                    *)
(***************************************************************************)
\* the last input contains one of the triggers, in any casing
HasTrigger(triggers) ==
    \E t \in triggers : \E i \in 0..(Len(structured.content) - Len(t)) :
        \A k \in 1..Len(t) : toLowerChar(structured.content[i + k]) = t[k]

LastIntent == structured.metadata.intent

\* C13: intent classification is by fixed priority, first match wins: an
\* input containing a compare trigger in any casing is compare with
\* confidence 0.9 whatever else it contains; otherwise a purchase trigger
\* gives purchase 0.85; otherwise a question trigger gives question 0.8;
\* otherwise a search trigger gives search 0.9.
C13_IntentPriority ==
    structured # NoStructured =>
        /\ HasTrigger(CompareTriggers)
              => LastIntent.primary = "compare" /\ LastIntent.confidence = 90
        /\ (~HasTrigger(CompareTriggers) /\ HasTrigger(PurchaseTriggers))
              => LastIntent.primary = "purchase" /\ LastIntent.confidence = 85
        /\ (~HasTrigger(CompareTriggers) /\ ~HasTrigger(PurchaseTriggers)
               /\ HasTrigger(QuestionTriggers))
              => LastIntent.primary = "question" /\ LastIntent.confidence = 80
        /\ (~HasTrigger(CompareTriggers) /\ ~HasTrigger(PurchaseTriggers)
               /\ ~HasTrigger(QuestionTriggers) /\ HasTrigger(SearchTriggers))
              => LastIntent.primary = "search" /\ LastIntent.confidence = 90
        /\ structured.metadata.confidence = LastIntent.confidence

\* an input typed with capitals that holds a compare and a purchase trigger
\* was classified compare
C13_Witness ==
    /\ structured # NoStructured
    /\ HasTrigger(CompareTriggers) /\ HasTrigger(PurchaseTriggers)
    /\ structured.content # toLowerCase(structured.content)
    /\ LastIntent.primary = "compare"
    /\ LastIntent.confidence = 90

NoTrigger ==
    /\ ~HasTrigger(CompareTriggers) /\ ~HasTrigger(PurchaseTriggers)
    /\ ~HasTrigger(QuestionTriggers) /\ ~HasTrigger(SearchTriggers)

\* C14: every input with no recognised keyword, the empty string included,
\* gives intent search with confidence 0.7; the empty string with no
\* previous context also gives satisfaction medium, turn count 1, no
\* category, no price range and the missing-info list categoria,
\* presupuesto, uso_principal.
C14_DefaultIntent ==
    structured # NoStructured =>
        /\ NoTrigger => LastIntent.primary = "search" /\ LastIntent.confidence = 70
        /\ (structured.content = <<>> /\ previous = Absent)
              => /\ LastIntent.primary = "search" /\ LastIntent.confidence = 70
                 /\ LastIntent.entities.category = Undefined
                 /\ LastIntent.entities.priceRange = Absent
                 /\ structured.metadata.context.conversationState.userSatisfaction = "medium"
                 /\ structured.metadata.context.conversationState.turnCount = 1
                 /\ structured.metadata.context.currentSearch # Absent
                 /\ structured.metadata.context.currentSearch.category = Undefined
                 /\ structured.metadata.context.currentSearch.missingInfo
                       = <<"categoria", "presupuesto", "uso_principal">>

\* the empty string was the input
C14_Witness ==
    /\ structured # NoStructured
    /\ structured.content = <<>>
    /\ previous = Absent
    /\ LastIntent.primary = "search"
    /\ Len(structured.metadata.context.currentSearch.missingInfo) = 3

LastTurnCount == structured.metadata.context.conversationState.turnCount

\* C15: along a chain of createStructuredMessage calls, each given the
\* context the call before it returned, the turn count of the returned
\* context is the previous turn count plus 1, and 1 when there is no
\* previous context, whatever the intent.
C15_TurnCountChain ==
    [][ structured'.metadata.context.conversationState.turnCount
            = IF structured = NoStructured THEN 1 ELSE LastTurnCount + 1
      ]_vars

\* the chain has gone through search and other turns up to its last turn
C15_Witness ==
    /\ structured # NoStructured
    /\ LastTurnCount = MaxTurns
    /\ previous # Absent
    /\ previous.conversationState.turnCount = MaxTurns - 1
    /\ previous.conversationState.lastAgentAction = "search"
    /\ LastIntent.primary = "purchase"

\* the phase that belongs to a turn count
C16_PhaseOf(turnCount) ==
    CASE turnCount \in {1, 2} -> "discovery"
      [] turnCount \in {3, 4} -> "narrowing"
      [] turnCount \in {5, 6} -> "comparison"
      [] OTHER -> "decision"

\* C16: in every context returned along a chain of createStructuredMessage
\* calls, with any mix of intents, a current-search record that is present
\* has the phase that belongs to the context's turn count: turns 1-2
\* discovery, 3-4 narrowing, 5-6 comparison, 7 and above decision.
C16_PhaseFollowsTurnCount ==
    (structured # NoStructured /\ structured.metadata.context.currentSearch # Absent)
    => structured.metadata.context.currentSearch.phase = C16_PhaseOf(LastTurnCount)

\* the missing-info list of the last message's current-search record
LastMissingInfo == structured.metadata.context.currentSearch.missingInfo

\* C22: for every search-intent message, the missing-info list of the
\* returned current-search record is exactly, in this order, categoria iff
\* no category was extracted, presupuesto iff no price range was
\* extracted, and uso_principal iff no feature entities were found; no
\* other entry ever appears.
C22_MissingInfoList ==
    (structured # NoStructured /\ LastIntent.primary = "search") =>
        /\ structured.metadata.context.currentSearch # Absent
        /\ LastMissingInfo
              = (IF LastIntent.entities.category = Undefined
                 THEN <<"categoria">> ELSE <<>>)
                \o (IF LastIntent.entities.priceRange = Absent
                    THEN <<"presupuesto">> ELSE <<>>)
                \o (IF \/ LastIntent.entities.features = Undefined
                       \/ LastIntent.entities.features = <<>>
                    THEN <<"uso_principal">> ELSE <<>>)

\* a search message that names a category and a price lacks only the use
C22_Witness ==
    /\ structured # NoStructured
    /\ LastIntent.primary = "search"
    /\ LastIntent.entities.category # Undefined
    /\ LastIntent.entities.priceRange # Absent
    /\ LastMissingInfo = <<"uso_principal">>

\* what the last formatForLLMAPI call was given and what it built
FormattedIntent == formatted.requestMetadata.userIntent
FormattedContext == formatted.requestMetadata.conversationContext
AgentInstructions == formatted.requestMetadata.agentInstructions

\* the instruction that asks for the fields of a missing-info list
AskFor(missingInfo) ==
    CASE missingInfo = <<"categoria", "presupuesto", "uso_principal">>
            -> "ASK_FOR: categoria, presupuesto, uso_principal"
      [] missingInfo = <<"categoria", "presupuesto">> -> "ASK_FOR: categoria, presupuesto"
      [] missingInfo = <<"categoria", "uso_principal">> -> "ASK_FOR: categoria, uso_principal"
      [] missingInfo = <<"presupuesto", "uso_principal">>
            -> "ASK_FOR: presupuesto, uso_principal"
      [] missingInfo = <<"categoria">> -> "ASK_FOR: categoria"
      [] missingInfo = <<"presupuesto">> -> "ASK_FOR: presupuesto"
      [] missingInfo = <<"uso_principal">> -> "ASK_FOR: uso_principal"
      [] OTHER -> "ASK_FOR: "

\* C23: the agent-instruction list built by formatForLLMAPI contains, in
\* this order and nothing else, 'ASK_FOR: <missing fields>' iff the intent
\* is search and the current-search missing-info list is non-empty,
\* 'SUGGEST_ALTERNATIVE_APPROACH' iff the turn count exceeds 5 and the
\* context records no product results, 'CLARIFY_USER_INTENT' iff the
\* intent confidence is below 0.6.
C23_AgentInstructions ==
    formatted # NoFormatted =>
        LET askFor == /\ FormattedIntent.primary = "search"
                      /\ FormattedContext.currentSearch # Absent
                      /\ FormattedContext.currentSearch.missingInfo # <<>>
            suggest == /\ FormattedContext.conversationState.turnCount > 5
                       /\ \/ FormattedContext.productsContext = Absent
                          \/ FormattedContext.productsContext.lastSearchResults = 0
            clarify == FormattedIntent.confidence < 60
        IN  AgentInstructions
               = (IF askFor THEN <<AskFor(FormattedContext.currentSearch.missingInfo)>>
                  ELSE <<>>)
                 \o (IF suggest THEN <<"SUGGEST_ALTERNATIVE_APPROACH">> ELSE <<>>)
                 \o (IF clarify THEN <<"CLARIFY_USER_INTENT">> ELSE <<>>)

\* a search message on turn 6 with no product results and a low confidence
\* got all three instructions
C23_Witness ==
    /\ formatted # NoFormatted
    /\ FormattedIntent.primary = "search"
    /\ FormattedContext.conversationState.turnCount = 6
    /\ FormattedContext.productsContext = Absent
    /\ FormattedIntent.confidence = 59
    /\ Len(AgentInstructions) = 3
    /\ AgentInstructions[2] = "SUGGEST_ALTERNATIVE_APPROACH"
    /\ AgentInstructions[3] = "CLARIFY_USER_INTENT"

\* 'uso_principal' is in the list
HasUse(missingInfo) == \E i \in 1..Len(missingInfo) : missingInfo[i] = "uso_principal"

\* the instruction starts with 'ASK_FOR:' and ends with the use
AsksForUse(instruction) ==
    instruction \in {AskFor(<<"categoria", "presupuesto", "uso_principal">>),
                     AskFor(<<"categoria", "uso_principal">>),
                     AskFor(<<"presupuesto", "uso_principal">>),
                     AskFor(<<"uso_principal">>)}

\* C30: for every message produced by createStructuredMessage the intent
\* confidence is one of 0.7, 0.8, 0.85, 0.9, so the agent-instruction list
\* built from it by formatForLLMAPI never contains 'CLARIFY_USER_INTENT';
\* and because feature entities are never extracted, every search-intent
\* message has a missing-info list containing 'uso_principal' and always
\* yields an 'ASK_FOR:' instruction.
C30_NeverClarifiesAlwaysAsks ==
    structured # NoStructured =>
        /\ LastIntent.confidence \in {70, 80, 85, 90}
        /\ structured.metadata.confidence \in {70, 80, 85, 90}
        /\ LastIntent.entities.features = Undefined
        /\ LastIntent.primary = "search" => HasUse(LastMissingInfo)
        /\ formatted # NoFormatted =>
              /\ \A i \in 1..Len(AgentInstructions) :
                    AgentInstructions[i] # "CLARIFY_USER_INTENT"
              /\ LastIntent.primary = "search" =>
                    /\ Len(AgentInstructions) >= 1
                    /\ AsksForUse(AgentInstructions[1])

\* a search turn after a purchase turn, formatted: it asks for the use
C30_Witness ==
    /\ structured # NoStructured
    /\ formatted # NoFormatted
    /\ formatted.content = structured.content
    /\ LastIntent.primary = "search"
    /\ LastIntent.confidence = 90
    /\ previous # Absent
    /\ previous.conversationState.lastAgentAction # "search"
    /\ AsksForUse(AgentInstructions[1])

(***************************************************************************)
(* Claims about the connection status.                                     *)
(***************************************************************************)
\* C17: getConnectionStatus returns 'offline' when the health call fails
\* or answers non-2xx, 'slow' when it answers 2xx after a round trip of
\* more than 3000 ms, 'online' when it answers 2xx after at most 3000 ms;
\* it always resolves with one of the three.
C17_ConnectionStatus ==
    health.pc = "done" =>
        LET answered2xx == /\ health.outcome.kind = "response"
                           /\ health.outcome.status \in 200..299
            roundTrip == health.now - health.startTime
        IN  /\ health.status \in {"online", "offline", "slow"}
            /\ health.status = "offline" <=> ~answered2xx
            /\ health.status = "slow" <=> (answered2xx /\ roundTrip > 3000)
            /\ health.status = "online" <=> (answered2xx /\ roundTrip <= 3000)

\* a 2xx answer after exactly 3000 ms, by a call that did not start at
\* instant 0, gave 'online'
C17_Witness ==
    /\ health.pc = "done"
    /\ health.startTime > 0
    /\ health.outcome.kind = "response" /\ health.outcome.status = 204
    /\ health.now - health.startTime = 3000
    /\ health.status = "online"

(***************************************************************************)
(* Claims about the backoff and the error responses of ChatService.        *)
(***************************************************************************)
\* the retries call c has made
C19_Retries(c) ==
    IF calls[c].pc = "backoff" THEN calls[c].attempts ELSE calls[c].attempts - 1

C20_Failed(c) == calls[c].pc = "done" /\ calls[c].response.success = FALSE

\* the Error of the last attempt of call c
C20_Error(c) == makeRequest(Current(c)).value

\* which classification rule applies to a thrown Error
C20_Rule(e) ==
    IF Includes(e, "fetch") \/ Includes(e, "NetworkError") THEN "network"
    ELSE IF Includes(e, "HTTP_") THEN "http"
    ELSE IF Includes(e, "aborted") \/ Includes(e, "timeout") THEN "timeout"
    ELSE IF Includes(e, "INVALID_RESPONSE") THEN "invalid"
    ELSE "unknown"

\* C20 as stated: two final failures classified with the same type carry
\* the same user-facing message and the same suggestion list.
C20_MessageByTypeAlone ==
    \A c, d \in Calls :
        (C20_Failed(c) /\ C20_Failed(d)
            /\ calls[c].response.error.type = calls[d].response.error.type)
        => /\ calls[c].response.message = calls[d].response.message
           /\ calls[c].response.suggestions = calls[d].response.suggestions

\* C20, amended: two final failures classified with the same type carry the
\* same suggestion list; they carry the same user-facing message when,
\* moreover, the same classification rule matched them and, for an HTTP
\* error, the status code is the same.
C20_SuggestionsByTypeMessageByRule ==
    \A c, d \in Calls :
        (C20_Failed(c) /\ C20_Failed(d)
            /\ calls[c].response.error.type = calls[d].response.error.type)
        => /\ calls[c].response.suggestions = calls[d].response.suggestions
           /\ (/\ C20_Rule(C20_Error(c)) = C20_Rule(C20_Error(d))
               /\ calls[c].response.error.statusCode = calls[d].response.error.statusCode)
                 => calls[c].response.message = calls[d].response.message

\* two server failures, a 404 and a 500, are settled: same suggestions,
\* different messages
C20_Witness ==
    /\ C20_Failed(1) /\ C20_Failed(2)
    /\ calls[1].response.error.type = "server"
    /\ calls[2].response.error.type = "server"
    /\ calls[1].response.error.statusCode = Num(404)
    /\ calls[2].response.error.statusCode = Num(500)
    /\ calls[1].response.message # calls[2].response.message
    /\ calls[1].response.suggestions = calls[2].response.suggestions

(***************************************************************************)
(* Claims about the chat page and the chat store.                          *)
(***************************************************************************)
\* the last step rendered the reply to send s: a message of the assistant
\* or of the system is the last of the list, the typing flag is cleared,
\* and the reply to a failed call carries suggestions
RenderedReply(s) ==
    /\ settled = s
    /\ Len(ui.messages) > 0
    /\ LET reply == ui.messages[Len(ui.messages)]
       IN  /\ reply.send = s
           /\ reply.sender \in {"assistant", "system"}
           /\ sends[s].response.success = FALSE =>
                 /\ reply.suggestions # Undefined
                 /\ Len(reply.suggestions) > 0
    /\ ~ui.isTyping

\* C12: every send of the page and of the store whose backend call settles
\* ends with a reply appended to the message list and the typing flag
\* cleared, and the reply to a call that failed carries a non-empty
\* suggestion list.
C12_EverySendRendersReply ==
    \A s \in Sends : (sends[s].pc = "pending") ~> RenderedReply(s)

\* C12 witness: the reply to a failed call has just been rendered while
\* another send is still pending.
C12_Witness ==
    \E s \in Sends :
        /\ RenderedReply(s)
        /\ sends[s].response.success = FALSE
        /\ Pending # {}

\* C18: when the send that settles last overlapped another one, the products
\* shown after it settled are those of its response, and the store's search
\* context is that of its response.
C18_LastSettledWins ==
    [][\A s \in Sends :
          (/\ sends[s].pc = "pending"
           /\ sends'[s].pc = "done"
           /\ sends[s].overlapped
           /\ \A t \in Sends : sends'[t].pc # "pending")
          => /\ ui'.products = ProductsOrEmpty(sends'[s].response)
             /\ app = "store" =>
                   /\ ui'.searchContext.lastQuery = sends[s].text
                   /\ ui'.searchContext.confidence = sends'[s].response.confidence
                   /\ ui'.searchContext.productCount
                         = Len(ProductsOrEmpty(sends'[s].response))]_vars

\* list a is the beginning of list b
IsPrefix(a, b) == Len(a) <= Len(b) /\ \A i \in 1..Len(a) : a[i] = b[i]

\* a step of handleSendMessage or of the store's sendMessage: a send
\* starts or settles
SendStep == sends' # sends

\* C24: the UI message list is append-only between resets: every
\* handleSendMessage / store sendMessage step only appends to the list (the
\* list before the step is a prefix of the list after it, no message is
\* edited, reordered or removed); the list is emptied or replaced only by
\* new chat, history load and history import.
C24_AppendOnly ==
    [][ LET newChat == /\ ui'.messages = <<>>
                       /\ ui'.showLanding
                       /\ ui'.sessionId # ui.sessionId
            historyLoad == app = "page" /\ ~ui.mounted /\ ui'.mounted
            historyImport == /\ app = "store"
                             /\ \E data \in ImportData : ui'.messages \in {<<>>, data.messages}
        IN  /\ SendStep => /\ Len(ui'.messages) = Len(ui.messages) + 1
                           /\ IsPrefix(ui.messages, ui'.messages)
                           /\ ui'.messages[Len(ui'.messages)].send \in Sends
            /\ (~SendStep /\ ui'.messages # ui.messages)
                  => newChat \/ historyLoad \/ historyImport
      ]_vars

\* the reply of a second send was appended to the two messages of the first
C24_Witness ==
    /\ settled = 2
    /\ sends[1].pc = "done"
    /\ Len(ui.messages) = 4
    /\ ui.messages[1].send = 1 /\ ui.messages[1].sender = "user"
    /\ ui.messages[2].send = 1 /\ ui.messages[2].sender = "assistant"
    /\ ui.messages[3].send = 2 /\ ui.messages[3].sender = "user"
    /\ ui.messages[4].send = 2 /\ ui.messages[4].sender = "assistant"

\* the messages of the list that a send of an earlier session put there
StaleMessages(messages, sessionId) ==
    {i \in 1..Len(messages) :
        /\ messages[i].send \in Sends
        /\ sends[messages[i].send].sessionId # sessionId}

\* C25: after a new chat (handleNewChat on the page, startNewChat in the
\* store) the message list and the history persisted under the new session
\* id contain only messages of sends initiated after the reset: a reply to
\* a send that was still in flight when the reset happened is never
\* appended to the new session's list nor saved under the new session id.
C25_NoReplyAcrossReset ==
    /\ ui.mounted => StaleMessages(ui.messages, ui.sessionId) = {}
    /\ (env.history # NoHistory /\ env.history.sessionId = env.session)
          => StaleMessages(env.history.messages, env.session) = {}

\* C26: the typing flag tracks in-flight sends: in every reachable state of
\* the page and of the store, isTyping is true whenever at least one send
\* has been issued and has not yet settled, including when sends overlap
\* and when a new chat is started during a send.
C26_TypingWhilePending == Pending # {} => ui.isTyping

\* the message at the end of the list
LastMessage(messages) == messages[Len(messages)]

\* C27: AlkostoAPI.sendMessage and ChatService.sendMessage always resolve,
\* so the failure branch of handleSendMessage / store sendMessage is never
\* taken: after every settled send, one whose response has success = false
\* included, the connection status is 'online', currentError is unset and
\* the reply is appended as an assistant message, never as a system error
\* message.
C27_FailureBranchUnreachable ==
    [][ settled' # 0 =>
          /\ ui'.connectionStatus = "online"
          /\ ui.currentError = NoCurrentError
          /\ ui'.currentError = NoCurrentError
          /\ Len(ui'.messages) = Len(ui.messages) + 1
          /\ LastMessage(ui'.messages).sender = "assistant"
          /\ LastMessage(ui'.messages).send = settled'
          /\ LastMessage(ui'.messages).text = sends'[settled'].response.message
          /\ ~LastMessage(ui'.messages).isError
          /\ \A i \in 1..Len(ui'.messages) : ui'.messages[i].sender # "system"
      ]_vars

\* a send whose backend call failed has settled
C27_Witness ==
    /\ settled # 0
    /\ ~sends[settled].response.success
    /\ ui.connectionStatus = "online"
    /\ ui.currentError = NoCurrentError
    /\ LastMessage(ui.messages).sender = "assistant"
    /\ LastMessage(ui.messages).send = settled

\* C28: in every reachable state of a ChatService instance, under any
\* number of sequential or overlapping sendMessage calls and any transport
\* outcomes, the retry counter satisfies 0 <= retryCount <= configured
\* maximum.
C28_RetryCountBounded == 0 <= retryCount /\ retryCount <= retries

\* two overlapping calls are in flight, one of them backing off, with the
\* counter at the maximum
C28_Witness ==
    /\ retries = MaxRetries
    /\ retryCount = retries
    /\ \A c \in Calls : InFlight(c) /\ ~calls[c].alone
    /\ \E c \in Calls : calls[c].pc = "backoff"
    /\ \E c \in Calls : calls[c].pc = "attempt" /\ makeRequest(Current(c)).threw

====
